---- MODULE Spec2Model ----
(***************************************************************************)
(* Memory Bank state manager (memory_bank/core.py, sections.py,            *)
(* exporters.py): one handle on one project root.                          *)
(*                                                                         *)
(* JSON values are tagged so that Python's isinstance tests can be         *)
(* modelled: a dict is Dict(f) with f a function over its keys, a list is  *)
(* List(s) with s a sequence, None is a value of its own.  A str is a      *)
(* Text: a sequence of atoms, where the atoms "CR" and "LF" are the two    *)
(* line-break characters and every other atom is a run of other            *)
(* characters.  Status values, the version and timestamps are scalars.     *)
(***************************************************************************)
EXTENDS Integers, Sequences, FiniteSets, TLC

\* ------------------------------------------------------------------ bounds
\* datetime.now() is modelled by a clock that runs from 0 to MaxClock.
MaxClock == 1
\* A caller makes at most MaxOps calls on the handle it opened.
MaxOps == 3
\* Length of the texts a caller passes as projectInfo content.
MaxTextLen == 1
\* sys.getrecursionlimit(): the depth of nested calls the interpreter allows
\* before it raises RecursionError (1000 by default).
RecursionLimit == 4

\* ------------------------------------------------------------ JSON values
None == [kind |-> "none"]
Dict(f) == [kind |-> "dict", val |-> f]
List(s) == [kind |-> "list", val |-> s]
IsDict(v) == v.kind = "dict"
IsList(v) == v.kind = "list"
\* `k in d` for a dict d
In(k, d) == k \in DOMAIN d.val
\* d[k] = v
Put(d, k, v) == Dict([x \in (DOMAIN d.val) \cup {k} |-> IF x = k THEN v ELSE d.val[x]])
\* d.get(k, default)
Get(d, k, default) == IF In(k, d) THEN d.val[k] ELSE default
\* Python truthiness of an optional dict argument: None and {} are falsy
Truthy(v) == IsDict(v) /\ DOMAIN v.val # {}

CR == "CR"
LF == "LF"

\* ------------------------------------------------------ core.py: the table
SectionOrder ==
    << "projectInfo", "productContext", "systemPatterns", "standards",
       "technologies", "tasks", "changeHistory" >>

\* the table with standards made to wait for productContext
section_dependencies_wrong_standards ==
    [ projectInfo    |-> << >>,
      productContext |-> << "projectInfo" >>,
      systemPatterns |-> << "projectInfo" >>,
      standards      |-> << "productContext" >>,
      technologies   |-> << "projectInfo" >>,
      tasks          |-> << "productContext", "systemPatterns", "technologies" >>,
      changeHistory  |-> << >> ]

\* a table in which projectInfo waits for standards: a cycle
section_dependencies_cycle ==
    [ projectInfo    |-> << "standards" >>,
      productContext |-> << "projectInfo" >>,
      systemPatterns |-> << "projectInfo" >>,
      standards      |-> << "systemPatterns" >>,
      technologies   |-> << "projectInfo" >>,
      tasks          |-> << "productContext", "systemPatterns", "technologies" >>,
      changeHistory  |-> << >> ]

section_dependencies ==
    [ projectInfo    |-> << >>,
      productContext |-> << "projectInfo" >>,
      systemPatterns |-> << "projectInfo" >>,
      standards      |-> << "systemPatterns" >>,
      technologies   |-> << "projectInfo" >>,
      tasks          |-> << "productContext", "systemPatterns", "technologies" >>,
      changeHistory  |-> << >> ]

\* os.path.basename(project_root)
ProjectName == << "project" >>

\* initial_state with projectInfo born "Pending" like the other sections
initial_state_all_pending(created, lastUpdated) ==
    Dict([ metadata       |-> Dict([ created     |-> created,
                                     lastUpdated |-> lastUpdated,
                                     version     |-> "1.0.0" ]),
           projectInfo    |-> Dict([ name        |-> ProjectName,
                                     description |-> << >>,
                                     content     |-> << >>,
                                     status      |-> "Pending" ]),
           productContext |-> Dict([ content |-> << >>, status |-> "Pending" ]),
           systemPatterns |-> Dict([ content |-> << >>, status |-> "Pending" ]),
           technologies   |-> Dict([ content |-> << >>, items |-> List(<< >>),
                                     status  |-> "Pending" ]),
           tasks          |-> Dict([ current |-> Dict([ description   |-> << >>,
                                                        status        |-> "Pending",
                                                        steps         |-> List(<< >>),
                                                        activeContext |-> << >> ]),
                                     history |-> List(<< >>) ]),
           standards      |-> Dict([ content |-> << >>, items |-> List(<< >>),
                                     status  |-> "Pending" ]),
           changeHistory  |-> List(<< >>) ])

\* a default document whose tasks has a status of its own
initial_state_tasks_status(created, lastUpdated) ==
    Dict([ metadata       |-> Dict([ created     |-> created,
                                     lastUpdated |-> lastUpdated,
                                     version     |-> "1.0.0" ]),
           projectInfo    |-> Dict([ name        |-> ProjectName,
                                     description |-> << >>,
                                     content     |-> << >>,
                                     status      |-> "Not Started" ]),
           productContext |-> Dict([ content |-> << >>, status |-> "Pending" ]),
           systemPatterns |-> Dict([ content |-> << >>, status |-> "Pending" ]),
           technologies   |-> Dict([ content |-> << >>, items |-> List(<< >>),
                                     status  |-> "Pending" ]),
           tasks          |-> Dict([ current |-> Dict([ description   |-> << >>,
                                                        status        |-> "Pending",
                                                        steps         |-> List(<< >>),
                                                        activeContext |-> << >> ]),
                                     history |-> List(<< >>),
                                     status  |-> "Pending" ]),
           standards      |-> Dict([ content |-> << >>, items |-> List(<< >>),
                                     status  |-> "Pending" ]),
           changeHistory  |-> List(<< >>) ])

\* The default document of init_memory_bank; created and lastUpdated come
\* from two calls of datetime.now().
initial_state(created, lastUpdated) ==
    Dict([ metadata       |-> Dict([ created     |-> created,
                                     lastUpdated |-> lastUpdated,
                                     version     |-> "1.0.0" ]),
           projectInfo    |-> Dict([ name        |-> ProjectName,
                                     description |-> << >>,
                                     content     |-> << >>,
                                     status      |-> "Not Started" ]),
           productContext |-> Dict([ content |-> << >>, status |-> "Pending" ]),
           systemPatterns |-> Dict([ content |-> << >>, status |-> "Pending" ]),
           technologies   |-> Dict([ content |-> << >>, items |-> List(<< >>),
                                     status  |-> "Pending" ]),
           tasks          |-> Dict([ current |-> Dict([ description   |-> << >>,
                                                        status        |-> "Pending",
                                                        steps         |-> List(<< >>),
                                                        activeContext |-> << >> ]),
                                     history |-> List(<< >>) ]),
           standards      |-> Dict([ content |-> << >>, items |-> List(<< >>),
                                     status  |-> "Pending" ]),
           changeHistory  |-> List(<< >>) ])

\* -------------------------------------------------------------- the files
Absent == [kind |-> "absent"]
\* json.dump followed by json.load gives back an equal value for every value
\* built from dicts with string keys, lists, strings and numbers, so a JSON
\* file is modelled by the value it holds.
JsonFile(v) == [kind |-> "json", val |-> v]
\* A text file holds the characters written to it.
TextFile(t) == [kind |-> "text", val |-> t]
\* A file whose text json.load rejects with JSONDecodeError.
Garbage == [kind |-> "garbage"]
\* A directory at the path of a file: open(path, 'w') raises IsADirectoryError.
Blocked == [kind |-> "dir"]
Exists(f) == f.kind # "absent"

VARIABLES
    phase,          \* "new" before MemoryBankManager(...) ran, "open" after
    memory_state,   \* MemoryBankManager.memory_state
    state_file,     \* memory-bank/memory_state.json
    backup_file,    \* memory-bank/memory_state.backup.json
    md,             \* the markdown files of memory-bank/, by file name
    linesep,        \* os.linesep of the platform
    clock,          \* the last value datetime.now() returned
    ops,            \* the number of calls made on the handle
    last,           \* the last call made and what it returned
    other           \* memory_state of a second handle on the same root, or None

vars ==
    << phase, memory_state, state_file, backup_file, md, linesep, clock, ops, last,
       other >>

MdFiles ==
    { "projectbrief.md", "productContext.md", "systemPatterns.md",
      "techContext.md", "activeContext.md", "progress.md" }

\* ------------------------------------------------- core.py: StateStore
\* save_memory_state that writes the state file first and copies it afterwards
save_memory_state_backup_after(ms, sf, bf, t) ==
    IF ~(IsDict(ms) /\ In("metadata", ms) /\ IsDict(ms.val["metadata"]))
    THEN [ memory_state |-> ms, state_file |-> sf, backup_file |-> bf, raised |-> TRUE ]
    ELSE LET ms1 == Put(ms, "metadata", Put(ms.val["metadata"], "lastUpdated", t))
         IN  IF bf = Blocked
             THEN [ memory_state |-> ms1, state_file |-> JsonFile(ms1), backup_file |-> bf,
                    raised |-> TRUE ]
             ELSE [ memory_state |-> ms1, state_file |-> JsonFile(ms1),
                    backup_file |-> JsonFile(ms1), raised |-> FALSE ]

\* save_memory_state that leaves a state file alone when the document in it
\* was saved later than the one in memory
save_memory_state_keep_newer(ms, sf, bf, t) ==
    IF ~(IsDict(ms) /\ In("metadata", ms) /\ IsDict(ms.val["metadata"]))
    THEN [ memory_state |-> ms, state_file |-> sf, backup_file |-> bf, raised |-> TRUE ]
    ELSE LET ms1 == Put(ms, "metadata", Put(ms.val["metadata"], "lastUpdated", t))
         IN  IF /\ sf.kind = "json" /\ IsDict(sf.val) /\ In("metadata", sf.val)
                /\ sf.val.val["metadata"].val["lastUpdated"]
                     > ms.val["metadata"].val["lastUpdated"]
             THEN [ memory_state |-> ms1, state_file |-> sf, backup_file |-> bf,
                    raised |-> FALSE ]
             ELSE [ memory_state |-> ms1,
                    state_file   |-> JsonFile(ms1),
                    backup_file  |-> IF Exists(sf) THEN sf ELSE bf,
                    raised       |-> FALSE ]

\* save_memory_state at time t: what it leaves in memory and on disk.  The
\* assignment to memory_state["metadata"]["lastUpdated"] raises when there is
\* no metadata dict, before any file is touched.  The backup is a copy of the
\* state file as it was; the state file then receives the whole document.
\* The copy is not guarded: when the backup cannot be opened for writing the
\* error leaves save_memory_state before the state file is written.
save_memory_state(ms, sf, bf, t) ==
    IF ~(IsDict(ms) /\ In("metadata", ms) /\ IsDict(ms.val["metadata"]))
    THEN [ memory_state |-> ms, state_file |-> sf, backup_file |-> bf, raised |-> TRUE ]
    ELSE LET ms1 == Put(ms, "metadata", Put(ms.val["metadata"], "lastUpdated", t))
         IN  IF Exists(sf) /\ bf = Blocked
             THEN [ memory_state |-> ms1, state_file |-> sf, backup_file |-> bf,
                    raised |-> TRUE ]
             ELSE [ memory_state |-> ms1,
                    state_file   |-> JsonFile(ms1),
                    backup_file  |-> IF Exists(sf) THEN sf ELSE bf,
                    raised       |-> FALSE ]

RECURSIVE init_memory_bank(_, _, _, _, _, _)
RECURSIVE load_memory_state(_, _, _, _, _, _)
\* load_memory_state as the call number `depth` on the stack, at clock c:
\* [memory_state, state_file, clock, raised].  json.load gives whatever value
\* the file holds; JSONDecodeError and FileNotFoundError lead into
\* init_memory_bank.  RecursionError is not among the caught exceptions.
load_memory_state(ms, sf, c, t1, t2, depth) ==
    IF depth > RecursionLimit
    THEN [ memory_state |-> ms, state_file |-> sf, clock |-> c, raised |-> TRUE ]
    ELSE IF sf.kind = "json"
         THEN [ memory_state |-> sf.val, state_file |-> sf, clock |-> c, raised |-> FALSE ]
         ELSE init_memory_bank(ms, sf, c, t1, t2, depth + 1)

\* init_memory_bank that writes the default document over whatever is there
init_memory_bank_always_writes(ms, sf, c, t1, t2, depth) ==
    load_memory_state(ms, JsonFile(initial_state(t1, t2)), t2, t1, t2, depth + 1)

\* init_memory_bank: writes initial_state(t1, t2) only when there is no state
\* file, then calls load_memory_state.
init_memory_bank(ms, sf, c, t1, t2, depth) ==
    IF depth > RecursionLimit
    THEN [ memory_state |-> ms, state_file |-> sf, clock |-> c, raised |-> TRUE ]
    ELSE IF ~Exists(sf)
         THEN load_memory_state(ms, JsonFile(initial_state(t1, t2)), t2, t1, t2, depth + 1)
         ELSE load_memory_state(ms, sf, c, t1, t2, depth + 1)

\* ---------------------------------------------- sections.py: SectionAccessor
\* get_section that gives an empty dict for a name that is not there
get_section_default_dict(ms, section_name) ==
    IF In(section_name, ms) THEN ms.val[section_name] ELSE Dict(<< >>)

get_section(ms, section_name) ==
    IF In(section_name, ms) THEN ms.val[section_name] ELSE None

\* update_projectInfo that, like the technologies branch, sets content only
update_projectInfo_content_only(section, content, metadata) ==
    Put(section, "content", content)

\* The projectInfo branch: content, then every metadata item laid over it.
update_projectInfo(section, content, metadata) ==
    LET s1 == Put(section, "content", content)
    IN  IF Truthy(metadata)
        THEN Dict([ k \in (DOMAIN s1.val) \cup (DOMAIN metadata.val) |->
                      IF k \in DOMAIN metadata.val THEN metadata.val[k] ELSE s1.val[k] ])
        ELSE s1

\* the tasks branch with `elif` for the progress: one of the two at most
update_tasks_either(tasks, metadata, t) ==
    LET wantAC == Truthy(metadata) /\ In("activeContext", metadata)
        wantPr == Truthy(metadata) /\ In("progress", metadata)
        task   == Dict([ timestamp   |-> t,
                         description |-> Get(metadata, "description", << "Task completed" >>),
                         progress    |-> metadata.val["progress"],
                         status      |-> "Completed" ])
    IN  IF wantAC
        THEN [ section |-> Put(tasks, "current",
                               Put(tasks.val["current"], "activeContext",
                                   metadata.val["activeContext"])),
               raised  |-> FALSE ]
        ELSE IF wantPr
             THEN [ section |-> Put(tasks, "history",
                                    List(Append(tasks.val["history"].val, task))),
                    raised  |-> FALSE ]
             ELSE [ section |-> tasks, raised |-> FALSE ]

\* the tasks branch with a history that keeps the latest task only
update_tasks_latest_only(tasks, metadata, t) ==
    LET wantAC == Truthy(metadata) /\ In("activeContext", metadata)
        wantPr == Truthy(metadata) /\ In("progress", metadata)
        tasks1 == IF wantAC
                  THEN Put(tasks, "current",
                           Put(tasks.val["current"], "activeContext",
                               metadata.val["activeContext"]))
                  ELSE tasks
        task   == Dict([ timestamp   |-> t,
                         description |-> Get(metadata, "description", << "Task completed" >>),
                         progress    |-> metadata.val["progress"],
                         status      |-> "Completed" ])
    IN  IF wantPr
        THEN [ section |-> Put(tasks1, "history", List(<< task >>)), raised |-> FALSE ]
        ELSE [ section |-> tasks1, raised |-> FALSE ]

\* The tasks branch: [section, raised].  content is not used.
update_tasks(tasks, metadata, t) ==
    LET wantAC == Truthy(metadata) /\ In("activeContext", metadata)
        wantPr == Truthy(metadata) /\ In("progress", metadata)
        okAC   == IsDict(tasks) /\ In("current", tasks) /\ IsDict(tasks.val["current"])
        tasks1 == IF wantAC
                  THEN Put(tasks, "current",
                           Put(tasks.val["current"], "activeContext",
                               metadata.val["activeContext"]))
                  ELSE tasks
        okPr   == IsDict(tasks1) /\ In("history", tasks1) /\ IsList(tasks1.val["history"])
        task   == Dict([ timestamp   |-> t,
                         description |-> Get(metadata, "description", << "Task completed" >>),
                         progress    |-> metadata.val["progress"],
                         status      |-> "Completed" ])
    IN  IF wantAC /\ ~okAC THEN [ section |-> tasks, raised |-> TRUE ]
        ELSE IF wantPr /\ ~okPr THEN [ section |-> tasks1, raised |-> TRUE ]
        ELSE IF wantPr
             THEN [ section |-> Put(tasks1, "history",
                                    List(Append(tasks1.val["history"].val, task))),
                    raised  |-> FALSE ]
             ELSE [ section |-> tasks1, raised |-> FALSE ]

\* the branches with a generic branch that turns a section that is not a
\* dict into one that holds the content
update_branch_content_always(section_name, section, content, metadata, t) ==
    IF section_name = "projectInfo"
    THEN IF IsDict(section)
         THEN [ section |-> update_projectInfo(section, content, metadata), raised |-> FALSE ]
         ELSE [ section |-> section, raised |-> TRUE ]
    ELSE IF section_name = "technologies"
    THEN IF IsDict(section)
         THEN [ section |-> Put(section, "content", content), raised |-> FALSE ]
         ELSE [ section |-> section, raised |-> TRUE ]
    ELSE IF section_name = "tasks"
    THEN update_tasks(section, metadata, t)
    ELSE IF IsDict(section)
         THEN [ section |-> Put(section, "content", content), raised |-> FALSE ]
         ELSE [ section |-> Dict([ content |-> content ]), raised |-> FALSE ]

\* The branch of update_section for section_name: [section, raised].
update_branch(section_name, section, content, metadata, t) ==
    IF section_name = "projectInfo"
    THEN IF IsDict(section)
         THEN [ section |-> update_projectInfo(section, content, metadata), raised |-> FALSE ]
         ELSE [ section |-> section, raised |-> TRUE ]
    ELSE IF section_name = "technologies"
    THEN IF IsDict(section)
         THEN [ section |-> Put(section, "content", content), raised |-> FALSE ]
         ELSE [ section |-> section, raised |-> TRUE ]
    ELSE IF section_name = "tasks"
    THEN update_tasks(section, metadata, t)
    ELSE IF IsDict(section)
         THEN [ section |-> Put(section, "content", content), raised |-> FALSE ]
         ELSE [ section |-> section, raised |-> FALSE ]

\* mark_complete that completes only a section that is "Pending"
mark_complete_if_pending(section) ==
    IF IsDict(section) /\ In("status", section) /\ section.val["status"] = "Pending"
    THEN Put(section, "status", "Complete")
    ELSE section

\* mark_complete that gives a status only to a section that has none
mark_complete_if_missing(section) ==
    IF IsDict(section) /\ ~In("status", section)
    THEN Put(section, "status", "Complete")
    ELSE section

\* "Update status to complete - only if it's a dictionary with a status field"
mark_complete(section) ==
    IF IsDict(section) /\ In("status", section)
    THEN Put(section, "status", "Complete")
    ELSE section

\* update_state that sets the status before the branch runs, so that a status
\* in the metadata of projectInfo is the one that stays
update_state_marks_first(ms, section_name, content, metadata, t) ==
    LET b == update_branch(section_name, mark_complete(ms.val[section_name]),
                           content, metadata, t)
    IN  [ memory_state |-> Put(ms, section_name, b.section), raised |-> b.raised ]

\* update_section on a section_name that is in memory_state, up to and without
\* its call of save_memory_state: [memory_state, raised]
update_state(ms, section_name, content, metadata, t) ==
    LET b == update_branch(section_name, ms.val[section_name], content, metadata, t)
    IN  IF b.raised
        THEN [ memory_state |-> Put(ms, section_name, b.section), raised |-> TRUE ]
        ELSE [ memory_state |-> Put(ms, section_name, mark_complete(b.section)),
               raised       |-> FALSE ]

\* update_section that saves whether or not the section exists
update_section_always_saves(ms, sf, bf, c, section_name, content, metadata, t1, t2) ==
    LET u == IF In(section_name, ms)
             THEN update_state(ms, section_name, content, metadata, t1)
             ELSE [ memory_state |-> ms, raised |-> FALSE ]
        s == save_memory_state(u.memory_state, sf, bf, t2)
    IN  [ memory_state |-> s.memory_state, state_file |-> s.state_file,
          backup_file |-> s.backup_file, clock |-> t2,
          ret |-> IF In(section_name, ms) THEN "True" ELSE "False" ]

\* update_section that turns away a section whose dependencies are not complete
update_section_gated(ms, sf, bf, c, section_name, content, metadata, t1, t2) ==
    IF In(section_name, ms)
       /\ (section_name \in DOMAIN section_dependencies
              => \A i \in DOMAIN section_dependencies[section_name] :
                    LET dep == section_dependencies[section_name][i]
                    IN  /\ In(dep, ms)
                        /\ (IsDict(ms.val[dep]) /\ In("status", ms.val[dep]))
                              => ms.val[dep].val["status"] = "Complete")
    THEN LET u == update_state(ms, section_name, content, metadata, t1)
             s == save_memory_state(u.memory_state, sf, bf, t2)
         IN  IF u.raised
             THEN [ memory_state |-> u.memory_state, state_file |-> sf,
                    backup_file |-> bf, clock |-> c, ret |-> "raised" ]
             ELSE [ memory_state |-> s.memory_state, state_file |-> s.state_file,
                    backup_file |-> s.backup_file, clock |-> t2,
                    ret |-> IF s.raised THEN "raised" ELSE "True" ]
    ELSE [ memory_state |-> ms, state_file |-> sf, backup_file |-> bf,
           clock |-> c, ret |-> "False" ]

\* update_section(memory_manager, section_name, content, metadata) at clock c:
\* [memory_state, state_file, backup_file, clock, ret].  t1 is the time of the
\* history record, t2 the time of the save.
update_section(ms, sf, bf, c, section_name, content, metadata, t1, t2) ==
    IF In(section_name, ms)
    THEN LET u == update_state(ms, section_name, content, metadata, t1)
             s == save_memory_state(u.memory_state, sf, bf, t2)
         IN  IF u.raised
             THEN [ memory_state |-> u.memory_state, state_file |-> sf,
                    backup_file |-> bf, clock |-> c, ret |-> "raised" ]
             ELSE [ memory_state |-> s.memory_state, state_file |-> s.state_file,
                    backup_file |-> s.backup_file, clock |-> t2,
                    ret |-> IF s.raised THEN "raised" ELSE "True" ]
    ELSE [ memory_state |-> ms, state_file |-> sf, backup_file |-> bf,
           clock |-> c, ret |-> "False" ]

\* ------------------------------------------ sections.py: DependencyResolver
RECURSIVE deps_from(_, _, _)
\* the loop that takes a dependency without a status for an incomplete one
deps_from_strict(ms, dependencies, i) ==
    IF i > Len(dependencies) THEN TRUE
    ELSE LET dep == dependencies[i]
         IN  IF ~In(dep, ms) THEN FALSE
             ELSE IF ~IsDict(ms.val[dep]) THEN deps_from(ms, dependencies, i + 1)
             ELSE IF ~In("status", ms.val[dep]) THEN FALSE
             ELSE IF ms.val[dep].val["status"] # "Complete" THEN FALSE
             ELSE deps_from(ms, dependencies, i + 1)

\* the loop of check_dependencies_complete from the i-th dependency on
deps_from(ms, dependencies, i) ==
    IF i > Len(dependencies) THEN TRUE
    ELSE LET dep == dependencies[i]
         IN  IF ~In(dep, ms) THEN FALSE
             ELSE IF ~IsDict(ms.val[dep]) THEN deps_from(ms, dependencies, i + 1)
             ELSE IF ~In("status", ms.val[dep]) THEN deps_from(ms, dependencies, i + 1)
             ELSE IF ms.val[dep].val["status"] # "Complete" THEN FALSE
             ELSE deps_from(ms, dependencies, i + 1)

\* check_dependencies_complete that looks at the table only
check_dependencies_known(ms, section_name) ==
    section_name \in DOMAIN section_dependencies

check_dependencies_complete(ms, section_name) ==
    IF section_name \in DOMAIN section_dependencies
    THEN deps_from(ms, section_dependencies[section_name], 1)
    ELSE FALSE

RECURSIVE ready_from(_, _)
\* the loop that lists the ready sections last key first
ready_from_reversed(ms, i) ==
    IF i > Len(SectionOrder) THEN << >>
    ELSE LET section_name == SectionOrder[i]
             rest == ready_from(ms, i + 1)
         IN  IF ~In(section_name, ms) THEN rest
             ELSE IF ~IsDict(ms.val[section_name]) THEN rest
             ELSE IF ~In("status", ms.val[section_name]) THEN rest
             ELSE IF ms.val[section_name].val["status"] # "Complete"
                     /\ check_dependencies_complete(ms, section_name)
                  THEN rest \o << section_name >>
                  ELSE rest

\* the loop of get_ready_sections from the i-th key of the table on
ready_from(ms, i) ==
    IF i > Len(SectionOrder) THEN << >>
    ELSE LET section_name == SectionOrder[i]
             rest == ready_from(ms, i + 1)
         IN  IF ~In(section_name, ms) THEN rest
             ELSE IF ~IsDict(ms.val[section_name]) THEN rest
             ELSE IF ~In("status", ms.val[section_name]) THEN rest
             ELSE IF ms.val[section_name].val["status"] # "Complete"
                     /\ check_dependencies_complete(ms, section_name)
                  THEN << section_name >> \o rest
                  ELSE rest

\* get_ready_sections that leaves out the first key of the table
get_ready_sections_skip_first(ms) == ready_from(ms, 2)

get_ready_sections(ms) == ready_from(ms, 1)

\* ---------------------------------------------------------------- workflows
required_sections ==
    << "projectInfo", "productContext", "systemPatterns", "technologies" >>

RECURSIVE incomplete_from(_, _, _)
\* the loop of enter_plan_mode from the i-th name of `required` on: the names
\* that are missing, are not a dict, have no status, or a status other than
\* "Complete"
incomplete_from(ms, required, i) ==
    IF i > Len(required) THEN << >>
    ELSE LET name == required[i]
             rest == incomplete_from(ms, required, i + 1)
         IN  IF ~In(name, ms) THEN << name >> \o rest
             ELSE IF ~IsDict(ms.val[name]) THEN << name >> \o rest
             ELSE IF ~In("status", ms.val[name]) THEN << name >> \o rest
             ELSE IF ms.val[name].val["status"] # "Complete" THEN << name >> \o rest
             ELSE rest

\* enter_plan_mode that requires the three sections enter_act_mode requires
enter_plan_mode_three_required(ms) ==
    LET incomplete_sections ==
            incomplete_from(ms, << "projectInfo", "productContext", "technologies" >>, 1)
    IN  [ mode |-> "Plan",
          incomplete_sections |-> incomplete_sections,
          ready_sections |-> get_ready_sections(ms),
          all_complete |-> Len(incomplete_sections) = 0 ]

\* enter_plan_mode(memory_manager): the dict it returns
enter_plan_mode(ms) ==
    LET incomplete_sections == incomplete_from(ms, required_sections, 1)
    IN  [ mode |-> "Plan",
          incomplete_sections |-> incomplete_sections,
          ready_sections |-> get_ready_sections(ms),
          all_complete |-> Len(incomplete_sections) = 0 ]

\* log_state that puts the new entry first
log_state_prepend(ms, description, details, t) ==
    LET change == Dict([ timestamp   |-> t,
                         description |-> description,
                         details     |-> IF Truthy(details) THEN details ELSE Dict(<< >>) ])
    IN  Put(ms, "changeHistory", List(<< change >> \o ms.val["changeHistory"].val))

\* log_state that, having made changeHistory an empty list, leaves it empty
log_state_init_only(ms, description, details, t) ==
    LET change == Dict([ timestamp   |-> t,
                         description |-> description,
                         details     |-> IF Truthy(details) THEN details ELSE Dict(<< >>) ])
    IN  IF ~In("changeHistory", ms) THEN Put(ms, "changeHistory", List(<< >>))
        ELSE IF ~IsList(ms.val["changeHistory"]) THEN Put(ms, "changeHistory", List(<< >>))
        ELSE Put(ms, "changeHistory", List(Append(ms.val["changeHistory"].val, change)))

\* log_change up to, and without, its call of save_memory_state
log_state(ms, description, details, t) ==
    LET change == Dict([ timestamp   |-> t,
                         description |-> description,
                         details     |-> IF Truthy(details) THEN details ELSE Dict(<< >>) ])
        ms1 == IF ~In("changeHistory", ms) THEN Put(ms, "changeHistory", List(<< >>))
               ELSE IF ~IsList(ms.val["changeHistory"])
                    THEN Put(ms, "changeHistory", List(<< >>))
                    ELSE ms
    IN  Put(ms1, "changeHistory", List(Append(ms1.val["changeHistory"].val, change)))

\* log_change(memory_manager, description, details):
\* [memory_state, state_file, backup_file, clock, ret].  t1 is the time of the
\* entry, t2 the time of the save.
\* On a memory_state that is not a dict the assignment of line 101 raises.
log_change(ms, sf, bf, description, details, t1, t2) ==
    IF ~IsDict(ms)
    THEN [ memory_state |-> ms, state_file |-> sf, backup_file |-> bf, clock |-> t1,
           ret |-> "raised" ]
    ELSE LET s == save_memory_state(log_state(ms, description, details, t1), sf, bf, t2)
         IN  [ memory_state |-> s.memory_state, state_file |-> s.state_file,
               backup_file |-> s.backup_file, clock |-> t2,
               ret |-> IF s.raised THEN "raised" ELSE "None" ]

\* ------------------------------------------------ text files (open 'w', 'r')
RECURSIVE WriteText(_, _)
\* f.write(t) on a file opened in text mode: each "\n" becomes os.linesep
WriteText(t, sep) ==
    IF t = << >> THEN << >>
    ELSE (IF Head(t) = LF THEN sep ELSE << Head(t) >>) \o WriteText(Tail(t), sep)

RECURSIVE ReadText(_)
\* f.read() on a file opened in text mode (newline=None, universal newlines):
\* "\r\n" and a lone "\r" both come back as "\n"
ReadText(b) ==
    IF b = << >> THEN << >>
    ELSE IF Head(b) = CR
         THEN IF Len(b) >= 2 /\ b[2] = LF
              THEN << LF >> \o ReadText(Tail(Tail(b)))
              ELSE << LF >> \o ReadText(Tail(b))
         ELSE << Head(b) >> \o ReadText(Tail(b))

\* ------------------------------------------- exporters.py: MarkdownProjector
export_mapping ==
    [ projectInfo    |-> "projectbrief.md",
      productContext |-> "productContext.md",
      systemPatterns |-> "systemPatterns.md",
      technologies   |-> "techContext.md",
      tasks          |-> "activeContext.md" ]

ExportOrder == << "projectInfo", "productContext", "systemPatterns", "technologies", "tasks" >>

\* what the export of tasks writes to activeContext.md
active_context_text(tasks) ==
    IF In("current", tasks) /\ IsDict(tasks.val["current"])
    THEN Get(tasks.val["current"], "activeContext", << >>)
    ELSE << >>

RECURSIVE progress_from(_, _)
\* the loop that gives every entry that is a dict a block
progress_from_every_entry(history, i) ==
    IF i > Len(history) THEN << >>
    ELSE LET task == history[i]
         IN  (IF IsDict(task)
              THEN << "## " >> \o Get(task, "description", << "Task" >>) \o << LF >>
                   \o Get(task, "progress", << >>) \o << LF, LF >>
              ELSE << >>)
             \o progress_from(history, i + 1)

\* the loop over tasks.history from its i-th entry on
progress_from(history, i) ==
    IF i > Len(history) THEN << >>
    ELSE LET task == history[i]
         IN  (IF IsDict(task) /\ In("progress", task)
              THEN << "## " >> \o Get(task, "description", << "Task" >>) \o << LF >>
                   \o task.val["progress"] \o << LF, LF >>
              ELSE << >>)
             \o progress_from(history, i + 1)

\* what the export of tasks writes to progress.md
progress_content(tasks) ==
    << "# Project Progress", LF, LF >>
    \o (IF In("history", tasks) /\ IsList(tasks.val["history"])
        THEN progress_from(tasks.val["history"].val, 1)
        ELSE << >>)

\* what the export of a regular section writes to its file
section_text(name, section) ==
    IF In("content", section)
    THEN section.val["content"]
    ELSE << "# ", name, LF, LF, "*No content yet*" >>

\* The files after the export of the one section `name`, which is in ms
export_one(ms, files, name, sep) ==
    IF name = "tasks" /\ IsDict(ms.val[name])
    THEN [ files EXCEPT
             !["activeContext.md"] = TextFile(WriteText(active_context_text(ms.val["tasks"]), sep)),
             !["progress.md"]      = TextFile(WriteText(progress_content(ms.val["tasks"]), sep)) ]
    ELSE IF name \in DOMAIN export_mapping /\ IsDict(ms.val[name])
         THEN [ files EXCEPT
                  ![export_mapping[name]] = TextFile(WriteText(section_text(name, ms.val[name]), sep)) ]
         ELSE files

\* export_markdown with a section name that also opens projectbrief.md for
\* writing, and so empties it
export_section_empties_brief(ms, files, section_name, sep) ==
    IF In(section_name, ms)
    THEN [ md  |-> IF section_name = "projectInfo"
                   THEN export_one(ms, files, section_name, sep)
                   ELSE [ export_one(ms, files, section_name, sep)
                            EXCEPT !["projectbrief.md"] = TextFile(<< >>) ],
           ret |-> IF section_name = "tasks" /\ IsDict(ms.val[section_name])
                   THEN "progress.md"
                   ELSE IF section_name \in DOMAIN export_mapping /\ IsDict(ms.val[section_name])
                        THEN export_mapping[section_name]
                        ELSE "raised" ]
    ELSE [ md |-> files, ret |-> "None" ]

\* export_markdown(memory_manager, section_name) with a section name:
\* [md, ret].  `return md_file` raises UnboundLocalError when no branch
\* assigned md_file.
export_section(ms, files, section_name, sep) ==
    IF In(section_name, ms)
    THEN [ md  |-> export_one(ms, files, section_name, sep),
           ret |-> IF section_name = "tasks" /\ IsDict(ms.val[section_name])
                   THEN "progress.md"
                   ELSE IF section_name \in DOMAIN export_mapping /\ IsDict(ms.val[section_name])
                        THEN export_mapping[section_name]
                        ELSE "raised" ]
    ELSE [ md |-> files, ret |-> "None" ]

RECURSIVE export_from(_, _, _, _)
\* the loop of the export of all sections from the i-th item of the mapping on
export_from(ms, files, i, sep) ==
    IF i > Len(ExportOrder) THEN files
    ELSE LET name == ExportOrder[i]
         IN  export_from(ms,
                         IF In(name, ms) THEN export_one(ms, files, name, sep) ELSE files,
                         i + 1, sep)

\* the export of all sections that leaves out the first item of the mapping
export_all_skip_first(ms, files, sep) ==
    [ md |-> export_from(ms, files, 2, sep), ret |-> "memory_path" ]

export_all(ms, files, sep) ==
    [ md |-> export_from(ms, files, 1, sep), ret |-> "memory_path" ]

\* the mapping of import_markdown, in its order
ImportOrder ==
    << "projectbrief.md", "productContext.md", "systemPatterns.md",
       "techContext.md", "activeContext.md", "progress.md" >>

import_mapping ==
    [ f \in MdFiles |->
        CASE f = "projectbrief.md"   -> "projectInfo"
          [] f = "productContext.md" -> "productContext"
          [] f = "systemPatterns.md" -> "systemPatterns"
          [] f = "techContext.md"    -> "technologies"
          [] f = "activeContext.md"  -> "tasks"
          [] f = "progress.md"       -> "tasks" ]

RECURSIVE derive_from(_, _)
\* "Try to derive file path from section name": the first file of the mapping
\* whose section is section_name, or "None"
derive_from(section_name, i) ==
    IF i > Len(ImportOrder) THEN "None"
    ELSE IF import_mapping[ImportOrder[i]] = section_name THEN ImportOrder[i]
    ELSE derive_from(section_name, i + 1)

resolve_path(section_name, file_path) ==
    IF file_path = "None" THEN derive_from(section_name, 1) ELSE file_path

\* import_content that takes progress.md for a history record
import_content_into_history(ms, file_name, content) ==
    IF file_name = "progress.md"
    THEN [ memory_state |->
             Put(ms, "tasks",
                 Put(ms.val["tasks"], "history",
                     List(Append(ms.val["tasks"].val["history"].val,
                                 Dict([ progress |-> content ]))))),
           written |-> TRUE ]
    ELSE [ memory_state |-> ms, written |-> FALSE ]

\* import_content that writes the content of a regular file and leaves the
\* status of the section as it is
import_content_keep_status(ms, file_name, content) ==
    IF file_name \in DOMAIN import_mapping /\ import_mapping[file_name] # "tasks"
       /\ In(import_mapping[file_name], ms) /\ IsDict(ms.val[import_mapping[file_name]])
    THEN [ memory_state |->
             Put(ms, import_mapping[file_name],
                 Put(ms.val[import_mapping[file_name]], "content", content)),
           written |-> TRUE ]
    ELSE [ memory_state |-> ms, written |-> FALSE ]

\* import_markdown after the file was read, up to and without its call of
\* save_memory_state: [memory_state, written]
import_content(ms, file_name, content) ==
    IF file_name \in { "activeContext.md", "progress.md" }
    THEN IF In("tasks", ms) /\ IsDict(ms.val["tasks"])
            /\ In("current", ms.val["tasks"]) /\ IsDict(ms.val["tasks"].val["current"])
         THEN [ memory_state |->
                  Put(ms, "tasks",
                      Put(ms.val["tasks"], "current",
                          Put(ms.val["tasks"].val["current"],
                              IF file_name = "activeContext.md" THEN "activeContext"
                                                                ELSE "progress",
                              content))),
                written |-> TRUE ]
         ELSE [ memory_state |-> ms, written |-> FALSE ]
    ELSE IF file_name \in DOMAIN import_mapping
         THEN LET section_name == import_mapping[file_name]
              IN  IF In(section_name, ms) /\ IsDict(ms.val[section_name])
                  THEN [ memory_state |->
                           Put(ms, section_name,
                               Put(Put(ms.val[section_name], "content", content),
                                   "status", "Complete")),
                         written |-> TRUE ]
                  ELSE [ memory_state |-> ms, written |-> FALSE ]
         ELSE [ memory_state |-> ms, written |-> FALSE ]

\* export_markdown(memory_manager, section_name): [md, ret]; "None" exports
\* all sections
export_markdown(ms, files, section_name, sep) ==
    IF section_name = "None"
    THEN export_all(ms, files, sep)
    ELSE export_section(ms, files, section_name, sep)

\* import_markdown that takes a file it cannot read for an empty file
import_markdown_unreadable_as_empty(ms, sf, bf, files, c, section_name, file_path, t) ==
    LET path == resolve_path(section_name, file_path)
        no   == [ memory_state |-> ms, state_file |-> sf, backup_file |-> bf,
                  clock |-> c, ret |-> "False" ]
    IN  IF path = "None" \/ ~Exists(files[path])
        THEN no
        ELSE LET i == import_content(ms, path,
                                     IF files[path].kind = "text"
                                     THEN ReadText(files[path].val) ELSE << >>)
                 s == save_memory_state(i.memory_state, sf, bf, t)
             IN  IF i.written
                 THEN [ memory_state |-> s.memory_state, state_file |-> s.state_file,
                        backup_file |-> s.backup_file, clock |-> t,
                        ret |-> IF s.raised THEN "raised" ELSE "True" ]
                 ELSE no

\* import_markdown that reads the file at file_path and stores its text in the
\* section the name has a file for
import_markdown_by_name(ms, sf, bf, files, c, section_name, file_path, t) ==
    LET path == resolve_path(section_name, file_path)
        file_name == IF derive_from(section_name, 1) # "None"
                     THEN derive_from(section_name, 1) ELSE path
        no   == [ memory_state |-> ms, state_file |-> sf, backup_file |-> bf,
                  clock |-> c, ret |-> "False" ]
    IN  IF path = "None" \/ ~Exists(files[path]) \/ files[path].kind # "text"
        THEN no
        ELSE LET i == import_content(ms, file_name, ReadText(files[path].val))
                 s == save_memory_state(i.memory_state, sf, bf, t)
             IN  IF i.written
                 THEN [ memory_state |-> s.memory_state, state_file |-> s.state_file,
                        backup_file |-> s.backup_file, clock |-> t,
                        ret |-> IF s.raised THEN "raised" ELSE "True" ]
                 ELSE no

\* import_markdown(memory_manager, section_name, file_path) at clock c:
\* [memory_state, state_file, backup_file, clock, ret].  file_path is "None" or
\* the name of a file of the memory-bank directory; t is the time of the save.
\* A path that exists and cannot be opened for reading (a directory) takes the
\* bare except: the call returns False.
import_markdown(ms, sf, bf, files, c, section_name, file_path, t) ==
    LET path == resolve_path(section_name, file_path)
        no   == [ memory_state |-> ms, state_file |-> sf, backup_file |-> bf,
                  clock |-> c, ret |-> "False" ]
    IN  IF path = "None" \/ ~Exists(files[path])
        THEN no
        ELSE IF files[path].kind # "text"
        THEN no
        ELSE LET i == import_content(ms, path, ReadText(files[path].val))
                 s == save_memory_state(i.memory_state, sf, bf, t)
             IN  IF i.written
                 THEN [ memory_state |-> s.memory_state, state_file |-> s.state_file,
                        backup_file |-> s.backup_file, clock |-> t,
                        ret |-> IF s.raised THEN "raised" ELSE "True" ]
                 ELSE no

\* ----------------------------------------------------------------- actions
\* Before the handle is made: nothing in the memory-bank directory; `sep` is
\* the platform's line separator.
Fresh(sep) ==
    /\ phase = "new"
    /\ memory_state = Dict(<< >>)
    /\ state_file = Absent
    /\ backup_file = Absent
    /\ md = [ f \in MdFiles |-> Absent ]
    /\ linesep = sep
    /\ clock = 0
    /\ ops = 0
    /\ last = [ op |-> "none" ]
    /\ other = None

\* MemoryBankManager(project_root): memory_state = {}, then init_memory_bank.
\* When the constructor raises, the caller has no handle.
Open(t1, t2) ==
    /\ phase = "new"
    /\ clock <= t1 /\ t1 <= t2
    /\ LET r == init_memory_bank(Dict(<< >>), state_file, clock, t1, t2, 1)
       IN  /\ state_file' = r.state_file
           /\ memory_state' = r.memory_state
           /\ clock' = r.clock
           /\ phase' = IF r.raised THEN "new" ELSE "open"
           /\ last' = [ op |-> "open", ret |-> IF r.raised THEN "raised" ELSE "None" ]
    /\ UNCHANGED << backup_file, md, linesep, other >>

\* a call of load_memory_state on the handle
Reload(t1, t2) ==
    /\ phase = "open"
    /\ clock <= t1 /\ t1 <= t2
    /\ LET r == load_memory_state(memory_state, state_file, clock, t1, t2, 1)
       IN  /\ state_file' = r.state_file
           /\ memory_state' = r.memory_state
           /\ clock' = r.clock
           /\ last' = [ op |-> "reload", ret |-> IF r.raised THEN "raised" ELSE "None" ]
    /\ UNCHANGED << phase, backup_file, md, linesep, other >>

\* a call of save_memory_state on the handle
Persist(t) ==
    /\ phase = "open"
    /\ clock <= t
    /\ LET s == save_memory_state(memory_state, state_file, backup_file, t)
       IN  /\ memory_state' = s.memory_state
           /\ state_file' = s.state_file
           /\ backup_file' = s.backup_file
           /\ last' = [ op |-> "persist", ret |-> IF s.raised THEN "raised" ELSE "None" ]
    /\ clock' = t
    /\ UNCHANGED << phase, md, linesep, other >>

\* The caller lets go of the handle, as when the program ends; the next
\* MemoryBankManager(project_root) starts from memory_state = {}.
NewHandle ==
    /\ phase = "open"
    /\ phase' = "new"
    /\ memory_state' = Dict(<< >>)
    /\ last' = [ op |-> "new" ]
    /\ UNCHANGED << state_file, backup_file, md, linesep, clock, other >>

\* Something other than the handle removes the state file or leaves text in
\* it that is not JSON: the two conditions load_memory_state catches.
Damage(f) ==
    /\ state_file # f
    /\ state_file' = f
    /\ last' = [ op |-> "damage" ]
    /\ UNCHANGED << phase, memory_state, backup_file, md, linesep, clock, other >>

\* MemoryBankManager(project_root) once more while the first handle is kept:
\* the new handle becomes the one the caller uses, the first one is `other`.
OpenOther(t1, t2) ==
    /\ phase = "open"
    /\ other = None
    /\ clock <= t1 /\ t1 <= t2
    /\ LET r == init_memory_bank(Dict(<< >>), state_file, clock, t1, t2, 1)
       IN  /\ state_file' = r.state_file
           /\ memory_state' = IF r.raised THEN memory_state ELSE r.memory_state
           /\ other' = IF r.raised THEN other ELSE memory_state
           /\ clock' = r.clock
           /\ last' = [ op |-> "open", ret |-> IF r.raised THEN "raised" ELSE "None" ]
    /\ UNCHANGED << phase, backup_file, md, linesep >>

\* The caller turns to its other handle.
SwitchHandle ==
    /\ phase = "open"
    /\ other # None
    /\ memory_state' = other
    /\ other' = memory_state
    /\ last' = [ op |-> "switch" ]
    /\ UNCHANGED << phase, state_file, backup_file, md, linesep, clock >>

\* a call of get_section; `val` is the value it returned
GetSection(section_name) ==
    /\ phase = "open"
    /\ last' = [ op |-> "get", name |-> section_name, ret |-> "returned",
                 val |-> get_section(memory_state, section_name) ]
    /\ UNCHANGED << phase, memory_state, state_file, backup_file, md, linesep, clock,
                    other >>

\* a call of check_dependencies_complete
CheckDependencies(section_name) ==
    /\ phase = "open"
    /\ last' = [ op |-> "deps", name |-> section_name,
                 ret |-> IF check_dependencies_complete(memory_state, section_name)
                         THEN "True" ELSE "False" ]
    /\ UNCHANGED << phase, memory_state, state_file, backup_file, md, linesep, clock,
                    other >>

\* a call of get_ready_sections; `val` is the list it returned
GetReady ==
    /\ phase = "open"
    /\ last' = [ op |-> "ready", ret |-> "returned",
                 val |-> get_ready_sections(memory_state) ]
    /\ UNCHANGED << phase, memory_state, state_file, backup_file, md, linesep, clock,
                    other >>

\* a call of update_section
UpdateSection(section_name, content, metadata, t1, t2) ==
    /\ phase = "open"
    /\ clock <= t1 /\ t1 <= t2
    /\ LET r == update_section(memory_state, state_file, backup_file, clock,
                               section_name, content, metadata, t1, t2)
       IN  /\ memory_state' = r.memory_state
           /\ state_file' = r.state_file
           /\ backup_file' = r.backup_file
           /\ clock' = r.clock
           /\ last' = [ op |-> "update", name |-> section_name, ret |-> r.ret ]
    /\ UNCHANGED << phase, md, linesep, other >>

\* a call of log_change
LogChange(description, details, t1, t2) ==
    /\ phase = "open"
    /\ clock <= t1 /\ t1 <= t2
    /\ LET r == log_change(memory_state, state_file, backup_file,
                           description, details, t1, t2)
       IN  /\ memory_state' = r.memory_state
           /\ state_file' = r.state_file
           /\ backup_file' = r.backup_file
           /\ clock' = r.clock
           /\ last' = [ op |-> "log", ret |-> r.ret ]
    /\ UNCHANGED << phase, md, linesep, other >>

\* a call of export_markdown
ExportMarkdown(section_name) ==
    /\ phase = "open"
    /\ LET e == export_markdown(memory_state, md, section_name, linesep)
       IN  /\ md' = e.md
           /\ last' = [ op |-> "export", name |-> section_name, ret |-> e.ret ]
    /\ UNCHANGED << phase, memory_state, state_file, backup_file, linesep, clock, other >>

\* a call of import_markdown
ImportMarkdown(section_name, file_path, t) ==
    /\ phase = "open"
    /\ clock <= t
    /\ LET r == import_markdown(memory_state, state_file, backup_file, md, clock,
                                section_name, file_path, t)
       IN  /\ memory_state' = r.memory_state
           /\ state_file' = r.state_file
           /\ backup_file' = r.backup_file
           /\ clock' = r.clock
           /\ last' = [ op |-> "import", name |-> section_name, path |-> file_path,
                        ret |-> r.ret ]
    /\ UNCHANGED << phase, md, linesep, other >>

\* a call of enter_plan_mode; `val` is the dict it returned
EnterPlanMode ==
    /\ phase = "open"
    /\ last' = [ op |-> "plan", ret |-> "returned", val |-> enter_plan_mode(memory_state) ]
    /\ UNCHANGED << phase, memory_state, state_file, backup_file, md, linesep, clock,
                    other >>

\* ------------------------------------------------------------- the callers
Chars == { "x", CR, LF }
\* the texts of at most n atoms
Texts(n) == UNION { [ 1 .. k -> Chars ] : k \in 0 .. n }

\* the values datetime.now() may return
Times == 0 .. MaxClock

SectionNames ==
    { "metadata", "projectInfo", "productContext", "systemPatterns", "technologies",
      "tasks", "standards", "changeHistory" }

Names == SectionNames \cup { "doesNotExist" }

Metas ==
    { None,
      Dict([ name |-> << "N" >> ]),
      Dict([ status |-> "In Progress" ]),
      Dict([ status |-> "Archived" ]),
      Dict([ activeContext |-> << "A" >> ]),
      Dict([ progress |-> << "P" >> ]),
      Dict([ activeContext |-> << "A" >>, progress |-> << "P" >>, description |-> << "D" >> ]) }

Details == { None, Dict([ k |-> << "v" >> ]) }

\* one more call, while the caller has calls left
Call == ops < MaxOps /\ ops' = ops + 1

\* Spec: every operation, on a platform whose line separator is "\n", with a
\* clock that moves on by one with every call that reads it.
Init == Fresh(<< LF >>)

OpenNow == Open(clock, clock) /\ UNCHANGED ops

\* metadata is passed for the two sections whose branch reads it
Update ==
    /\ Call
    /\ \E n \in Names, m \in Metas :
          /\ m # None => n \in { "projectInfo", "tasks" }
          /\ UpdateSection(n, << "x" >>, m, clock + 1, clock + 1)

Log == Call /\ \E details \in Details : LogChange(<< "d" >>, details, clock + 1, clock + 1)

Export == Call /\ \E n \in Names \cup { "None" } : ExportMarkdown(n)

\* by name, and by explicit path
Import ==
    /\ Call
    /\ \E n \in Names, p \in MdFiles \cup { "None" } :
          /\ p # "None" => n = "tasks"
          /\ ImportMarkdown(n, p, clock + 1)

Next == OpenNow \/ Update \/ Log \/ Export \/ Import

Spec == Init /\ [][Next]_vars

\* SpecScenario: a caller that, after a fresh open, updates projectInfo,
\* technologies and systemPatterns only, in any order and any number of times,
\* at any times the clock allows.
ScenarioSections == { "projectInfo", "technologies", "systemPatterns" }

OpenTimed == (\E t1, t2 \in Times : Open(t1, t2)) /\ UNCHANGED ops

UpdateScenario ==
    /\ \E n \in ScenarioSections, m \in Metas, t1, t2 \in Times :
          UpdateSection(n, << "x" >>, m, t1, t2)
    /\ UNCHANGED ops

NextScenario == OpenTimed \/ UpdateScenario

SpecScenario == Init /\ [][NextScenario]_vars

\* SpecStored: the handle is opened on a root that holds a document some
\* earlier run left, in which the five sections with a status all have the
\* status `st`; the caller then updates sections.
Statuses == { "Not Started", "Pending", "In Progress", "Complete" }

StatusSections ==
    { "projectInfo", "productContext", "systemPatterns", "technologies", "standards" }

stored_document(st) ==
    Dict([ n \in DOMAIN initial_state(0, 0).val |->
             IF n \in StatusSections
             THEN Put(initial_state(0, 0).val[n], "status", st)
             ELSE initial_state(0, 0).val[n] ])

InitStored ==
    /\ phase = "new"
    /\ memory_state = Dict(<< >>)
    /\ \E st \in Statuses : state_file = JsonFile(stored_document(st))
    /\ backup_file = Absent
    /\ md = [ f \in MdFiles |-> Absent ]
    /\ linesep = << LF >>
    /\ clock = 0
    /\ ops = 0
    /\ last = [ op |-> "none" ]
    /\ other = None

StoredMetas ==
    { None,
      Dict([ status |-> "In Progress" ]),
      Dict([ status |-> "Pending", content |-> << "y" >> ]) }

UpdateStored ==
    /\ Call
    /\ \E n \in StatusSections, m \in StoredMetas :
          UpdateSection(n, << "x" >>, m, clock + 1, clock + 1)

NextStored == OpenNow \/ UpdateStored

SpecStored == InitStored /\ [][NextStored]_vars

\* SpecText: projectInfo and tasks and their markdown files, on either
\* platform, with contents that hold line breaks.
InitText == \E sep \in { << LF >>, << CR, LF >> } : Fresh(sep)

UpdateText ==
    /\ Call
    /\ \/ \E c \in Texts(MaxTextLen) :
             UpdateSection("projectInfo", c, Dict([ name |-> << "N" >> ]),
                           clock + 1, clock + 1)
       \/ UpdateSection("tasks", << "x" >>,
                        Dict([ activeContext |-> << "A" >>, progress |-> << "P" >> ]),
                        clock + 1, clock + 1)

ExportText == Call /\ \E n \in { "None", "tasks" } : ExportMarkdown(n)

ImportText ==
    /\ Call
    /\ \/ ImportMarkdown("projectInfo", "None", clock + 1)
       \/ ImportMarkdown("tasks", "progress.md", clock + 1)

NextText == OpenNow \/ UpdateText \/ ExportText \/ ImportText

SpecText == InitText /\ [][NextText]_vars

\* SpecStore: the handle on a root in any condition an earlier run or another
\* program may have left it in.
no_metadata_document ==
    Dict([ n \in (DOMAIN initial_state(0, 0).val) \ { "metadata" } |->
             initial_state(0, 0).val[n] ])

\* projectInfo a list, technologies null, tasks an empty object
malformed_sections_document ==
    Dict([ n \in DOMAIN initial_state(0, 0).val |->
             IF n = "projectInfo" THEN List(<< >>)
             ELSE IF n = "technologies" THEN None
             ELSE IF n = "tasks" THEN Dict(<< >>)
             ELSE initial_state(0, 0).val[n] ])

StoredFiles ==
    { Absent, Garbage,
      JsonFile(Dict(<< >>)), JsonFile(List(<< >>)),
      JsonFile(no_metadata_document), JsonFile(malformed_sections_document),
      JsonFile(initial_state(0, 0)) }

InitStore ==
    /\ phase = "new"
    /\ memory_state = Dict(<< >>)
    /\ state_file \in StoredFiles
    /\ backup_file \in { Absent, Blocked }
    /\ md = [ f \in MdFiles |-> Absent ]
    /\ linesep = << LF >>
    /\ clock = 0
    /\ ops = 0
    /\ last = [ op |-> "none" ]
    /\ other = None

StoreMetas ==
    { None, Dict([ activeContext |-> << "A" >> ]), Dict([ progress |-> << "P" >> ]) }

ReloadStore == Call /\ Reload(clock + 1, clock + 1)

PersistStore == Call /\ Persist(clock + 1)

UpdateStore ==
    /\ Call
    /\ \E n \in { "projectInfo", "technologies", "tasks", "doesNotExist" },
          m \in StoreMetas :
          /\ m # None <=> n = "tasks"
          /\ UpdateSection(n, << "x" >>, m, clock + 1, clock + 1)

NewHandleStore == NewHandle /\ UNCHANGED ops

DamageStore == (\E f \in { Absent, Garbage } : Damage(f)) /\ UNCHANGED ops

NextStore == OpenNow \/ ReloadStore \/ PersistStore \/ UpdateStore \/ NewHandleStore

SpecStore == InitStore /\ [][NextStore]_vars

\* SpecDamaged: SpecStore with a state file that may also be damaged while
\* the handle is open.
NextDamaged == NextStore \/ DamageStore

SpecDamaged == InitStore /\ [][NextDamaged]_vars

\* SpecTwo: two handles on one fresh root, used in any interleaving.
TwoSections == { "projectInfo", "productContext" }

OpenOtherNow == OpenOther(clock, clock) /\ UNCHANGED ops

SwitchTwo == SwitchHandle /\ UNCHANGED ops

UpdateTwo ==
    /\ Call
    /\ \E n \in TwoSections : UpdateSection(n, << "x" >>, None, clock + 1, clock + 1)

LogTwo == Call /\ LogChange(<< "d" >>, None, clock + 1, clock + 1)

NextTwo == OpenNow \/ OpenOtherNow \/ SwitchTwo \/ UpdateTwo \/ LogTwo

SpecTwo == Init /\ [][NextTwo]_vars

\* SpecShapes: the reading operations on stored documents whose sections
\* have any shape: a mapping with a status, a mapping without one, a list, or
\* no entry at all.
Shapes == { "Complete", "Pending", "nostatus", "list", "absent" }

ShapedSections == { "projectInfo", "productContext", "systemPatterns" }

\* the default document with technologies Complete and the sections of
\* ShapedSections in the shapes f gives them
shaped_document(f) ==
    LET d == initial_state(0, 0).val
    IN  Dict([ n \in { k \in DOMAIN d : k \in ShapedSections => f[k] # "absent" } |->
                 IF n = "technologies" THEN Put(d[n], "status", "Complete")
                 ELSE IF n \notin ShapedSections THEN d[n]
                 ELSE IF f[n] = "list" THEN List(<< >>)
                 ELSE IF f[n] = "nostatus" THEN Dict([ content |-> << >> ])
                 ELSE Put(d[n], "status", f[n]) ])

InitShapes ==
    /\ phase = "new"
    /\ memory_state = Dict(<< >>)
    /\ \E f \in [ ShapedSections -> Shapes ] : state_file = JsonFile(shaped_document(f))
    /\ backup_file = Absent
    /\ md = [ f \in MdFiles |-> Absent ]
    /\ linesep = << LF >>
    /\ clock = 0
    /\ ops = 0
    /\ last = [ op |-> "none" ]
    /\ other = None

GetShapes == Call /\ \E n \in Names : GetSection(n)

DepsShapes == Call /\ \E n \in Names : CheckDependencies(n)

ReadyShapes == Call /\ GetReady

NextShapes == OpenNow \/ GetShapes \/ DepsShapes \/ ReadyShapes

SpecShapes == InitShapes /\ [][NextShapes]_vars

\* SpecLog: log_change and update_section of changeHistory on stored
\* documents whose changeHistory is a list, is missing, or is something else.
HistoryShapes == { "list", "absent", "dict", "null" }

history_document(shape) ==
    LET d == initial_state(0, 0).val
    IN  Dict([ n \in { k \in DOMAIN d : k = "changeHistory" => shape # "absent" } |->
                 IF n # "changeHistory" \/ shape = "list" THEN d[n]
                 ELSE IF shape = "dict" THEN Dict(<< >>)
                 ELSE None ])

InitLog ==
    /\ phase = "new"
    /\ memory_state = Dict(<< >>)
    /\ \E shape \in HistoryShapes : state_file = JsonFile(history_document(shape))
    /\ backup_file = Absent
    /\ md = [ f \in MdFiles |-> Absent ]
    /\ linesep = << LF >>
    /\ clock = 0
    /\ ops = 0
    /\ last = [ op |-> "none" ]
    /\ other = None

UpdateLog == Call /\ UpdateSection("changeHistory", << "x" >>, None, clock + 1, clock + 1)

GetLog == Call /\ GetSection("changeHistory")

NextLog == OpenNow \/ Log \/ UpdateLog \/ GetLog

SpecLog == InitLog /\ [][NextLog]_vars

\* SpecTasks and SpecExport start on a fresh root, or on a root whose stored
\* document has a productContext without content, a systemPatterns that is a
\* list, and a tasks.history with an entry without progress, an entry that is
\* not a mapping, and an entry without description.
export_document ==
    LET d == initial_state(0, 0).val
    IN  Dict([ n \in DOMAIN d |->
                 IF n = "productContext" THEN Dict([ status |-> "Pending" ])
                 ELSE IF n = "systemPatterns" THEN List(<< >>)
                 ELSE IF n = "tasks"
                 THEN Put(d[n], "history",
                          List(<< Dict([ timestamp |-> 0, description |-> << "D0" >>,
                                         status |-> "Completed" ]),
                                  List(<< >>),
                                  Dict([ timestamp |-> 0, progress |-> << "P0" >>,
                                         status |-> "Completed" ]) >>))
                 ELSE d[n] ])

InitExport ==
    /\ phase = "new"
    /\ memory_state = Dict(<< >>)
    /\ state_file \in { Absent, JsonFile(export_document) }
    /\ backup_file = Absent
    /\ md = [ f \in MdFiles |-> Absent ]
    /\ linesep = << LF >>
    /\ clock = 0
    /\ ops = 0
    /\ last = [ op |-> "none" ]
    /\ other = None

\* SpecTasks: update_section of tasks with any content and metadata, and the
\* exports that write the files of tasks.
TaskMetas ==
    { None,
      Dict(<< >>),
      Dict([ description |-> << "D" >> ]),
      Dict([ activeContext |-> << "A" >> ]),
      Dict([ progress |-> << "P" >> ]),
      Dict([ progress |-> << "P" >>, description |-> << >> ]),
      Dict([ activeContext |-> << "B" >>, progress |-> << "P" >>,
             description |-> << "D" >> ]) }

\* content arguments: the tasks branch reads none of them
TaskContents == { << >>, << "x" >>, << "x", LF, "y" >> }

UpdateTasks ==
    /\ Call
    /\ \E c \in TaskContents, m \in TaskMetas :
          UpdateSection("tasks", c, m, clock + 1, clock + 1)

ExportTasks == Call /\ \E n \in { "None", "tasks" } : ExportMarkdown(n)

NextTasks == OpenNow \/ UpdateTasks \/ ExportTasks

SpecTasks == InitExport /\ [][NextTasks]_vars

\* SpecExport: updates of projectInfo and productContext, and every export.
UpdateExport ==
    /\ Call
    /\ \/ \E c \in Texts(MaxTextLen) :
             UpdateSection("projectInfo", c, None, clock + 1, clock + 1)
       \/ UpdateSection("productContext", << "x" >>, None, clock + 1, clock + 1)

ExportExport == Call /\ \E n \in Names \cup { "None" } : ExportMarkdown(n)

NextExport == OpenNow \/ UpdateExport \/ ExportExport

SpecExport == InitExport /\ [][NextExport]_vars

\* SpecImport: imports by name and by explicit path on a root where an earlier
\* run left its document, or none, and the markdown files; at the path of
\* productContext.md there is a text file, a directory, or nothing.  The text
\* of every file ends its first line with "\r\n".
ImportStatuses == { "In Progress", "Complete" }

import_files(pc) ==
    [ f \in MdFiles |->
        IF f = "productContext.md" /\ pc # "text"
        THEN IF pc = "dir" THEN Blocked ELSE Absent
        ELSE TextFile(<< f, CR, LF, "x" >>) ]

InitImport ==
    /\ phase = "new"
    /\ memory_state = Dict(<< >>)
    /\ state_file \in { Absent } \cup { JsonFile(stored_document(st)) : st \in ImportStatuses }
    /\ backup_file = Absent
    /\ \E pc \in { "text", "dir", "absent" } : md = import_files(pc)
    /\ linesep = << LF >>
    /\ clock = 0
    /\ ops = 0
    /\ last = [ op |-> "none" ]
    /\ other = None

ImportNames == { "projectInfo", "productContext", "tasks", "standards", "doesNotExist" }

ImportPaths ==
    { "None", "projectbrief.md", "productContext.md", "techContext.md", "activeContext.md" }

ImportAny ==
    /\ Call
    /\ \E n \in ImportNames, p \in ImportPaths : ImportMarkdown(n, p, clock + 1)

NextImport == OpenNow \/ ImportAny

SpecImport == InitImport /\ [][NextImport]_vars

\* SpecReady: the handle is opened on a root whose document has any of the
\* five sections with a status updated already; the caller asks for the ready
\* sections, updates one of them, and asks again, and calls enter_plan_mode
\* whenever it likes.  `ops` counts the updates.
progress_document(done) ==
    Dict([ n \in DOMAIN initial_state(0, 0).val |->
             IF n \in done
             THEN Put(Put(initial_state(0, 0).val[n], "content", << "x" >>),
                      "status", "Complete")
             ELSE initial_state(0, 0).val[n] ])

InitReady ==
    /\ phase = "new"
    /\ memory_state = Dict(<< >>)
    /\ \E done \in SUBSET StatusSections : state_file = JsonFile(progress_document(done))
    /\ backup_file = Absent
    /\ md = [ f \in MdFiles |-> Absent ]
    /\ linesep = << LF >>
    /\ clock = 0
    /\ ops = 0
    /\ last = [ op |-> "none" ]
    /\ other = None

UpdateReady ==
    /\ phase = "open"
    /\ ops' = ops + 1
    /\ \E i \in DOMAIN get_ready_sections(memory_state) :
          UpdateSection(get_ready_sections(memory_state)[i], << "x" >>, None,
                        clock + 1, clock + 1)

PlanReady == EnterPlanMode /\ UNCHANGED ops

NextReady == OpenNow \/ UpdateReady \/ PlanReady

SpecReady == InitReady /\ [][NextReady]_vars

\* ------------------------------------------------------------ the claims
\* the status field of the section `name` of the document
StatusOf(ms, name) == ms.val[name].val["status"]
\* the elements of a sequence
Range(seq) == { seq[i] : i \in DOMAIN seq }
\* the step is a call of `op` on the handle
IsCall(op) == ops' = ops + 1 /\ last'.op = op

\* C1: open on a fresh root yields the default Document: projectInfo is
\* "Not Started"; productContext, systemPatterns, technologies, standards and
\* tasks.current are "Pending"; tasks.history and changeHistory are empty; and
\* the state file holds that same document when open returns.
C1_OpenFreshDefaults ==
    last.op = "open" =>
        /\ StatusOf(memory_state, "projectInfo") = "Not Started"
        /\ \A n \in { "productContext", "systemPatterns", "technologies", "standards" } :
              StatusOf(memory_state, n) = "Pending"
        /\ memory_state.val["tasks"].val["current"].val["status"] = "Pending"
        /\ memory_state.val["tasks"].val["history"] = List(<< >>)
        /\ memory_state.val["changeHistory"] = List(<< >>)
        /\ state_file = JsonFile(memory_state)

C1_Witness == last.op = "open" /\ phase = "open" /\ Exists(state_file)

\* C2: whatever status a section has, and whatever content and metadata are
\* passed (a metadata with its own `status` included), an update of a section
\* that is a mapping with a `status` leaves that status "Complete".
C2_UpdateLeavesComplete ==
    [][ (/\ IsCall("update")
         /\ In(last'.name, memory_state)
         /\ IsDict(memory_state.val[last'.name])
         /\ In("status", memory_state.val[last'.name]))
        => StatusOf(memory_state', last'.name) = "Complete" ]_vars

\* an update of a section that was stored "In Progress" (the backup is the
\* state file as it was before the save)
C2_Witness ==
    /\ last.op = "update" /\ last.name = "projectInfo" /\ last.ret = "True"
    /\ Exists(backup_file)
    /\ StatusOf(backup_file.val, "projectInfo") = "In Progress"
    /\ memory_state.val["projectInfo"].val["content"] = << "y" >>

\* C3: in every state reachable from a fresh open by update, logChange,
\* exportMarkdown and importMarkdown calls, every prerequisite (per the table)
\* of every section readySections returns has status "Complete".
C3_ReadyHasCompletePrerequisites ==
    phase = "open" =>
        \A s \in Range(get_ready_sections(memory_state)) :
            \A d \in Range(section_dependencies[s]) :
                StatusOf(memory_state, d) = "Complete"

\* a section with a prerequisite is reported ready, and another is not
C3_Witness ==
    /\ phase = "open"
    /\ "standards" \in Range(get_ready_sections(memory_state))
    /\ "productContext" \notin Range(get_ready_sections(memory_state))
    /\ StatusOf(memory_state, "productContext") # "Complete"

\* C4: update(doc, "projectInfo", X, {name: N}) followed by
\* get(doc, "projectInfo") gives a section with content X and name N.
C4_UpdateGetRoundTrip ==
    [][ \A X \in Texts(MaxTextLen) :
          UpdateSection("projectInfo", X, Dict([ name |-> << "N" >> ]),
                        clock + 1, clock + 1)
          => LET section == get_section(memory_state', "projectInfo")
             IN  /\ section.val["content"] = X
                 /\ section.val["name"] = << "N" >> ]_vars

C4_Witness ==
    /\ last.op = "update" /\ last.name = "projectInfo" /\ last.ret = "True"
    /\ get_section(memory_state, "projectInfo").val["content"] = << CR >>
    /\ get_section(memory_state, "projectInfo").val["name"] = << "N" >>

\* C5: a logChange call makes changeHistory longer by exactly one, the new
\* entry is the last one, and the entries that were there keep their index
\* and value.
C5_LogChangeAppendOnly ==
    [][ IsCall("log") =>
          LET old == memory_state.val["changeHistory"].val
              new == memory_state'.val["changeHistory"].val
          IN  /\ Len(new) = Len(old) + 1
              /\ new[Len(new)].val["timestamp"] = clock'
              /\ \A i \in 1 .. Len(old) : new[i] = old[i] ]_vars

\* a logChange call on a changeHistory that already had an entry
C5_Witness ==
    /\ last.op = "log"
    /\ Len(memory_state.val["changeHistory"].val) >= 2

\* C6: on the default Document of a fresh open, readySections returns
\* exactly << "projectInfo" >>.
C6_FreshReadyIsProjectInfo ==
    last.op = "open" => get_ready_sections(memory_state) = << "projectInfo" >>

C6_Witness == last.op = "open" /\ StatusOf(memory_state, "projectInfo") = "Not Started"

\* C7: once projectInfo, technologies and systemPatterns were updated, and
\* no other section was, readySections holds standards and does not hold
\* tasks.  (Under SpecScenario these three are the only sections updated, and
\* one of them is "Complete" exactly when it was updated.)
C7_ScenarioReady ==
    (phase = "open" /\ \A n \in ScenarioSections : StatusOf(memory_state, n) = "Complete")
    => /\ "standards" \in Range(get_ready_sections(memory_state))
       /\ "tasks" \notin Range(get_ready_sections(memory_state))

C7_Witness ==
    /\ phase = "open"
    /\ \A n \in ScenarioSections : StatusOf(memory_state, n) = "Complete"
    /\ StatusOf(memory_state, "productContext") = "Pending"
    /\ get_ready_sections(memory_state) = << "productContext", "standards" >>

\* C8: for every content of projectInfo, exportMarkdown(doc) followed by
\* importMarkdown(doc, "projectInfo") returns true and leaves
\* projectInfo.content as it was before the export.
C8_MarkdownRoundTrip ==
    phase = "open" =>
        LET e == export_markdown(memory_state, md, "None", linesep)
            r == import_markdown(memory_state, state_file, backup_file, e.md, clock,
                                 "projectInfo", "None", clock + 1)
        IN  /\ r.ret = "True"
            /\ r.memory_state.val["projectInfo"].val["content"]
                 = memory_state.val["projectInfo"].val["content"]

\* C9: the export of tasks makes progress.md from tasks.history alone; an
\* import of progress.md puts the text read from the file into
\* tasks.current.progress and leaves tasks.history as it was.
C9_ProgressAsymmetric ==
    [][ /\ (IsCall("export") /\ last'.name \in { "tasks", "None" })
           => md'["progress.md"] =
                TextFile(WriteText(
                    progress_content(Dict([ history |-> memory_state.val["tasks"].val["history"] ])),
                    linesep))
        /\ (IsCall("import") /\ last'.path = "progress.md")
           => /\ memory_state'.val["tasks"].val["history"]
                   = memory_state.val["tasks"].val["history"]
              /\ last'.ret = "True"
                 => memory_state'.val["tasks"].val["current"].val["progress"]
                      = ReadText(md["progress.md"].val) ]_vars

\* progress.md, made from a history of one record, was imported
C9_Witness ==
    /\ last.op = "import" /\ last.path = "progress.md" /\ last.ret = "True"
    /\ Len(memory_state.val["tasks"].val["history"].val) = 1
    /\ memory_state.val["tasks"].val["current"].val["progress"]
         = << "# Project Progress", LF, LF, "## ", "Task completed", LF, "P", LF, LF >>

\* C10: update with a name that is not a key of the Document returns false
\* and changes neither the Document in memory (metadata.lastUpdated
\* included), nor the state file, nor the backup file.
C10_UpdateUnknownNoEffect ==
    [][ (IsCall("update") /\ ~In(last'.name, memory_state)) =>
          /\ last'.ret = "False"
          /\ UNCHANGED << memory_state, state_file, backup_file >> ]_vars

\* an update of an unknown name after a save that left a backup
C10_Witness ==
    /\ last.op = "update" /\ last.name = "doesNotExist" /\ last.ret = "False"
    /\ Exists(backup_file)

\* the document has the keys and the shapes of the default document
HasDefaultStructure(v) ==
    /\ IsDict(v)
    /\ DOMAIN v.val = DOMAIN initial_state(0, 0).val
    /\ IsDict(v.val["metadata"])
    /\ \A n \in StatusSections : IsDict(v.val[n]) /\ In("status", v.val[n])
    /\ IsDict(v.val["tasks"])
    /\ In("current", v.val["tasks"]) /\ IsDict(v.val["tasks"].val["current"])
    /\ In("history", v.val["tasks"]) /\ IsList(v.val["tasks"].val["history"])
    /\ IsList(v.val["changeHistory"])
\* s is t, or t without some of its last entries
IsPrefix(s, t) == Len(s) <= Len(t) /\ SubSeq(t, 1, Len(s)) = s
\* the step is a call on the handle that saved the document
IsSave ==
    /\ ops' = ops + 1
    /\ \/ last'.op = "persist" /\ last'.ret = "None"
       \/ last'.op \in { "update", "import" } /\ last'.ret = "True"
       \/ last'.op = "log" /\ last'.ret # "raised"

\* C11: open and reload on a state file that exists and is not parseable JSON
\* return without raising, and leave the default document in memory.
C11_UnparseableHeals ==
    (last.op \in { "open", "reload" } /\ state_file = Garbage)
        => (last.ret # "raised" /\ HasDefaultStructure(memory_state))

\* C12: open and reload on a state file that holds well-formed JSON of another
\* structure (an empty object, a list, an object without metadata) leave a
\* document of the default structure in memory, not the malformed value.
C12_MalformedFallsBack ==
    (last.op \in { "open", "reload" } /\ last.ret # "raised")
        => HasDefaultStructure(memory_state)

\* C13: a save leaves in the backup what the state file held right before it
\* and in the state file the whole document in memory; an open on a root with
\* neither file leaves no backup.
C13_BackupOneGenerationBehind ==
    [][ /\ IsSave =>
            /\ state_file' = JsonFile(memory_state')
            /\ state_file.kind = "json" => backup_file' = state_file
        /\ (last'.op = "open" /\ ~Exists(state_file) /\ ~Exists(backup_file))
              => (~Exists(backup_file') /\ Exists(state_file')) ]_vars

\* a save over a state file that an earlier save wrote: the backup holds the
\* earlier generation, the state file the later one
C13_Witness ==
    /\ last.op \in { "persist", "update" } /\ last.ret \in { "None", "True" }
    /\ backup_file.kind = "json" /\ state_file.kind = "json"
    /\ backup_file # state_file
    /\ backup_file.val # initial_state(0, 0)
    /\ state_file = JsonFile(memory_state)

\* C14: when the copy to the backup fails, save_memory_state still writes the
\* whole document in memory to the state file.
C14_BackupBestEffort ==
    (/\ last.op = "persist" /\ backup_file = Blocked
     /\ IsDict(memory_state) /\ In("metadata", memory_state))
        => state_file = JsonFile(memory_state)

\* C15: with one handle, after open and after every call of update_section,
\* log_change, import_markdown or export_markdown that returned, the state
\* file holds the document in memory.
C15_PersistedEqualsMemory ==
    (/\ phase = "open"
     /\ last.op \in { "open", "update", "log", "import", "export" }
     /\ last.ret # "raised")
        => state_file = JsonFile(memory_state)

\* C16: open on a root whose state file holds a valid document writes nothing:
\* the state file, the backup and the markdown files stay as they are and the
\* document in memory is the one in the state file.
C16_OpenExistingWritesNothing ==
    [][ (/\ phase = "new" /\ last'.op = "open"
         /\ state_file.kind = "json" /\ HasDefaultStructure(state_file.val))
           => /\ state_file' = state_file
              /\ backup_file' = backup_file
              /\ md' = md
              /\ memory_state' = state_file.val
              /\ last'.ret = "None" /\ phase' = "open" ]_vars

\* a later handle, just opened, sees the projectInfo an earlier handle completed
C16_Witness ==
    /\ last.op = "open" /\ last.ret = "None" /\ ops > 0
    /\ HasDefaultStructure(memory_state)
    /\ StatusOf(memory_state, "projectInfo") = "Complete"
    /\ memory_state.val["projectInfo"].val["content"] = << "x" >>

\* C17: update_section on a section of the wrong shape and save_memory_state
\* on a document without a metadata mapping do not raise (the backup being
\* writable).
C17_MalformedShapeNoRaise ==
    (last.op \in { "update", "persist" } /\ backup_file # Blocked)
        => last.ret # "raised"

\* C18: with two handles on one root, every save leaves in the state file the
\* whole document of the handle that saved, whatever the other handle had
\* saved before, and in the backup the state file as it was right before.
C18_LastWriterWins ==
    [][ IsSave => /\ state_file' = JsonFile(memory_state')
                  /\ backup_file' = state_file ]_vars

\* the second handle completed projectInfo and saved; the first handle, which
\* never saw that, saved after it: the state file has the first handle's
\* document, the backup the second handle's
C18_Witness ==
    /\ phase = "open" /\ other # None
    /\ last.op \in { "update", "log" }
    /\ StatusOf(other, "projectInfo") = "Complete"
    /\ StatusOf(memory_state, "projectInfo") = "Not Started"
    /\ state_file = JsonFile(memory_state)
    /\ backup_file.kind = "json"
    /\ StatusOf(backup_file.val, "projectInfo") = "Complete"

\* C19: from a fresh open on, every step leaves changeHistory and
\* tasks.history as they were or with new entries after the old ones.
C19_HistoriesAppendOnly ==
    [][ (phase = "open" /\ phase' = "open") =>
          /\ IsPrefix(memory_state.val["changeHistory"].val,
                      memory_state'.val["changeHistory"].val)
          /\ IsPrefix(memory_state.val["tasks"].val["history"].val,
                      memory_state'.val["tasks"].val["history"].val) ]_vars

\* both sequences have grown, tasks.history twice
C19_Witness ==
    /\ phase = "open"
    /\ Len(memory_state.val["changeHistory"].val) >= 1
    /\ Len(memory_state.val["tasks"].val["history"].val) >= 2

\* C20: in every state after a fresh open, projectInfo, productContext,
\* systemPatterns, technologies and standards are mappings with a status that
\* is one of Not Started, Pending, In Progress, Complete.
C20_StatusInEnum ==
    phase = "open" =>
        \A n \in StatusSections :
            /\ In(n, memory_state) /\ IsDict(memory_state.val[n])
            /\ In("status", memory_state.val[n])
            /\ StatusOf(memory_state, n) \in Statuses

\* projectInfo was updated with metadata that carries a status
C20_Witness ==
    /\ phase = "open"
    /\ last.op = "update" /\ last.name = "projectInfo" /\ last.ret = "True"
    /\ StatusOf(memory_state, "projectInfo") = "Complete"
    /\ memory_state.val["projectInfo"].val["content"] = << "x" >>

\* C21: get_section returns the value stored at the name when the name is a
\* key of the document and None otherwise, and the call changes neither the
\* document in memory nor any file.
C21_GetReturnsStoredValue ==
    [][ IsCall("get") =>
          /\ \/ last'.name \in DOMAIN memory_state.val
                /\ last'.val = memory_state.val[last'.name]
             \/ last'.name \notin DOMAIN memory_state.val
                /\ last'.val = None
          /\ last'.ret # "raised"
          /\ UNCHANGED << memory_state, state_file, backup_file, md >> ]_vars

\* a get of a name the stored document does not have, and of one it has
C21_Witness ==
    /\ last.op = "get" /\ last.name = "projectInfo" /\ last.val = None
    /\ ~In("projectInfo", memory_state)
    /\ In("productContext", memory_state)

\* the document satisfies the dependency `dep`
Satisfied(ms, dep) ==
    /\ In(dep, ms)
    /\ (IsDict(ms.val[dep]) /\ In("status", ms.val[dep]))
          => ms.val[dep].val["status"] = "Complete"

\* C26: check_dependencies_complete is false for a name that is not a key of
\* the table, false when a prerequisite is absent from the document, false
\* when a prerequisite is a mapping with a status other than Complete, and
\* true otherwise: a prerequisite that is not a mapping, or has no status,
\* counts as satisfied.
C26_DependenciesSatisfied ==
    last.op = "deps" =>
        (last.ret = "True"
           <=> /\ last.name \in DOMAIN section_dependencies
               /\ \A dep \in Range(section_dependencies[last.name]) :
                     Satisfied(memory_state, dep))

\* tasks asked about, with productContext a list and systemPatterns without
\* a status: the answer is True
C26_Witness ==
    /\ last.op = "deps" /\ last.name = "tasks" /\ last.ret = "True"
    /\ IsList(memory_state.val["productContext"])
    /\ ~In("status", memory_state.val["systemPatterns"])

\* the section `n` is a mapping with a status that is not Complete, and its
\* dependencies are satisfied
IsReady(ms, n) ==
    /\ In(n, ms) /\ IsDict(ms.val[n]) /\ In("status", ms.val[n])
    /\ ms.val[n].val["status"] # "Complete"
    /\ \A dep \in Range(section_dependencies[n]) : Satisfied(ms, dep)

\* C27: get_ready_sections returns exactly the keys of the table that are
\* ready, each once and in the order of the table, and does not change the
\* document.
C27_ReadySectionsExact ==
    [][ IsCall("ready") =>
          /\ last'.val = SelectSeq(SectionOrder, LAMBDA n : IsReady(memory_state, n))
          /\ UNCHANGED << memory_state, state_file, backup_file, md >> ]_vars

\* two sections reported ready, the later one behind a prerequisite that has
\* no status
C27_Witness ==
    /\ last.op = "ready"
    /\ last.val = << "productContext", "standards" >>
    /\ ~In("status", memory_state.val["projectInfo"])

\* the two documents are equal but for metadata.lastUpdated
SameButLastUpdated(a, b) ==
    /\ DOMAIN a.val = DOMAIN b.val
    /\ \A n \in DOMAIN a.val : n # "metadata" => a.val[n] = b.val[n]
    /\ \A k \in DOMAIN a.val["metadata"].val :
          k # "lastUpdated" => a.val["metadata"].val[k] = b.val["metadata"].val[k]

\* C23: update_section on changeHistory, which is a list, writes no content
\* and no status: the document is as before but for lastUpdated, it is saved,
\* and the call returns True.
C23_UpdateNonMappingNoWrite ==
    [][ (/\ IsCall("update") /\ last'.name = "changeHistory"
         /\ IsList(memory_state.val["changeHistory"]))
           => /\ memory_state'.val["changeHistory"] = memory_state.val["changeHistory"]
              /\ SameButLastUpdated(memory_state, memory_state')
              /\ memory_state'.val["metadata"].val["lastUpdated"] = clock'
              /\ state_file' = JsonFile(memory_state')
              /\ last'.ret = "True" ]_vars

\* an update of changeHistory when it holds an entry
C23_Witness ==
    /\ last.op = "update" /\ last.name = "changeHistory" /\ last.ret = "True"
    /\ Len(memory_state.val["changeHistory"].val) = 1
    /\ backup_file.kind = "json"
    /\ backup_file.val.val["changeHistory"] = memory_state.val["changeHistory"]

\* C24: update_section returns True exactly when the name is a key of the
\* document, whatever the section's status and whether or not its
\* prerequisites are Complete; it then saves, and a section with a status is
\* Complete afterwards.
C24_ExistenceOnlyGate ==
    [][ IsCall("update") =>
          /\ last'.ret = "True" <=> In(last'.name, memory_state)
          /\ last'.ret = "True" =>
                /\ state_file' = JsonFile(memory_state')
                /\ last'.name \in StatusSections
                      => StatusOf(memory_state', last'.name) = "Complete" ]_vars

\* standards was completed while its prerequisite systemPatterns, and
\* projectInfo before that, are not Complete
C24_Witness ==
    /\ last.op = "update" /\ last.name = "standards" /\ last.ret = "True"
    /\ StatusOf(memory_state, "standards") = "Complete"
    /\ StatusOf(memory_state, "systemPatterns") = "Pending"
    /\ StatusOf(memory_state, "projectInfo") = "Not Started"

\* C25: log_change on a document whose changeHistory is missing or is not a
\* list leaves a changeHistory of exactly one entry, with the time, the
\* description, and the details or an empty mapping; and every log_change
\* saves the document.
C25_LogChangeReinitialises ==
    [][ \A details \in Details :
          LogChange(<< "d" >>, details, clock + 1, clock + 1) =>
            /\ (~In("changeHistory", memory_state)
                  \/ ~IsList(memory_state.val["changeHistory"]))
                  => memory_state'.val["changeHistory"]
                       = List(<< Dict([ timestamp   |-> clock',
                                        description |-> << "d" >>,
                                        details     |-> IF details = None
                                                        THEN Dict(<< >>)
                                                        ELSE details ]) >>)
            /\ state_file' = JsonFile(memory_state')
            /\ last'.ret # "raised" ]_vars

\* the first log_change on a document that had no changeHistory
C25_Witness ==
    /\ last.op = "log" /\ ops = 1
    /\ backup_file.kind = "json" /\ ~In("changeHistory", backup_file.val)
    /\ Len(memory_state.val["changeHistory"].val) = 1

\* C22: update_section of tasks does not look at the content: activeContext,
\* when metadata has it, replaces tasks.current.activeContext; progress, when
\* metadata has it, appends one record to tasks.history with that progress,
\* status "Completed" and the description of metadata or "Task completed";
\* both when both are there; nothing else of the document changes but
\* lastUpdated, and with neither key nothing at all; the document is saved
\* and the call returns True.
C22_UpdateTasksByMetadata ==
    [][ \A c \in TaskContents, m \in TaskMetas :
          UpdateSection("tasks", c, m, clock + 1, clock + 1) =>
            LET old    == memory_state.val["tasks"]
                new    == memory_state'.val["tasks"]
                hasAC  == m # None /\ "activeContext" \in DOMAIN m.val
                hasPr  == m # None /\ "progress" \in DOMAIN m.val
                record == Dict([ timestamp   |-> clock',
                                 description |-> IF "description" \in DOMAIN m.val
                                                 THEN m.val["description"]
                                                 ELSE << "Task completed" >>,
                                 progress    |-> m.val["progress"],
                                 status      |-> "Completed" ])
            IN  /\ new.val["current"]
                     = IF hasAC
                       THEN Put(old.val["current"], "activeContext", m.val["activeContext"])
                       ELSE old.val["current"]
                /\ new.val["history"].val
                     = IF hasPr
                       THEN old.val["history"].val \o << record >>
                       ELSE old.val["history"].val
                /\ DOMAIN new.val = DOMAIN old.val
                /\ SameButLastUpdated(Put(memory_state, "tasks", new), memory_state')
                /\ (~hasAC /\ ~hasPr) => SameButLastUpdated(memory_state, memory_state')
                /\ memory_state'.val["metadata"].val["lastUpdated"] = clock'
                /\ state_file' = JsonFile(memory_state')
                /\ last'.ret = "True" ]_vars

\* one call has set the context to "B" and appended a record with
\* description "D" behind an earlier record with the default description
C22_Witness ==
    /\ last.op = "update" /\ last.name = "tasks" /\ last.ret = "True"
    /\ memory_state.val["tasks"].val["current"].val["activeContext"] = << "B" >>
    /\ LET h == memory_state.val["tasks"].val["history"].val
       IN  /\ Len(h) = 2
           /\ h[1].val["description"] = << "Task completed" >>
           /\ h[2].val["description"] = << "D" >>
           /\ h[2].val["timestamp"] = clock

RECURSIVE ProgressBlocks(_)
\* one block for each entry of the history that has a progress field
ProgressBlocks(h) ==
    IF h = << >> THEN << >>
    ELSE (IF IsDict(Head(h)) /\ "progress" \in DOMAIN Head(h).val
          THEN << "## " >>
               \o (IF "description" \in DOMAIN Head(h).val
                   THEN Head(h).val["description"] ELSE << "Task" >>)
               \o << LF >> \o Head(h).val["progress"] \o << LF, LF >>
          ELSE << >>)
         \o ProgressBlocks(Tail(h))

\* C28: the export of tasks, alone or with all sections, writes
\* activeContext.md, which receives the text
\* of tasks.current.activeContext, and progress.md, which receives the
\* heading and then, in the order of tasks.history, one block of sub-heading
\* (the description) and body (the progress) for each entry that has a
\* progress field, and nothing for the other entries.
C28_ExportTasksFiles ==
    [][ (IsCall("export") /\ last'.name \in { "tasks", "None" }) =>
          LET tasks == memory_state.val["tasks"]
          IN  /\ md'["activeContext.md"]
                   = TextFile(tasks.val["current"].val["activeContext"])
              /\ md'["progress.md"]
                   = TextFile(<< "# Project Progress", LF, LF >>
                              \o ProgressBlocks(tasks.val["history"].val))
              /\ last'.ret # "raised" ]_vars

\* tasks exported with a history of four entries, two of which have a
\* progress field
C28_Witness ==
    /\ last.op = "export" /\ last.name = "tasks"
    /\ Len(memory_state.val["tasks"].val["history"].val) = 4
    /\ md["progress.md"]
         = TextFile(<< "# Project Progress", LF, LF,
                       "## ", "Task", LF, "P0", LF, LF,
                       "## ", "D", LF, "P", LF, LF >>)
    /\ md["activeContext.md"] = TextFile(<< "B" >>)

\* the markdown files the export of the section `n` writes
FilesOf(n) ==
    IF n = "tasks" THEN { "activeContext.md", "progress.md" } ELSE { export_mapping[n] }

\* C29: export_markdown with the name of a mapped section writes the file or
\* files of that section only; the file of a section other than tasks
\* receives the content as it is, or the placeholder heading and the "No
\* content yet" marker when the section has no content.
C29_ExportOneSectionOnly ==
    [][ (/\ IsCall("export")
         /\ last'.name \in DOMAIN export_mapping
         /\ In(last'.name, memory_state) /\ IsDict(memory_state.val[last'.name]))
           => LET n == last'.name
              IN  /\ \A f \in MdFiles \ FilesOf(n) : md'[f] = md[f]
                  /\ \A f \in FilesOf(n) : md'[f].kind = "text"
                  /\ n # "tasks" =>
                        md'[export_mapping[n]]
                          = IF "content" \in DOMAIN memory_state.val[n].val
                            THEN TextFile(memory_state.val[n].val["content"])
                            ELSE TextFile(<< "# ", n, LF, LF, "*No content yet*" >>)
                  /\ UNCHANGED << memory_state, state_file, backup_file >> ]_vars

\* productContext, which has no content, exported after projectbrief.md was
\* written: the placeholder is in productContext.md, projectbrief.md is as it was
C29_Witness ==
    /\ last.op = "export" /\ last.name = "productContext"
    /\ ~In("content", memory_state.val["productContext"])
    /\ md["productContext.md"]
         = TextFile(<< "# ", "productContext", LF, LF, "*No content yet*" >>)
    /\ md["projectbrief.md"].kind = "text" /\ md["projectbrief.md"].val # << >>
    /\ md["techContext.md"] = Absent

\* C30: export_markdown without a name writes, for every mapped section the
\* document has as a mapping, what the export of that one section writes,
\* returns memory_path, and leaves the document in memory, the state file
\* and the backup as they are.
C30_ExportAllSections ==
    [][ (IsCall("export") /\ last'.name = "None") =>
          /\ \A n \in DOMAIN export_mapping :
                (In(n, memory_state) /\ IsDict(memory_state.val[n]))
                   => \A f \in FilesOf(n) :
                         md'[f] = export_section(memory_state, md, n, linesep).md[f]
          /\ last'.ret = "memory_path"
          /\ UNCHANGED << memory_state, state_file, backup_file >> ]_vars

\* all six files written from a document whose sections are all mappings
C30_Witness ==
    /\ last.op = "export" /\ last.name = "None" /\ last.ret = "memory_path"
    /\ \A f \in MdFiles : md[f].kind = "text"
    /\ md["projectbrief.md"] = TextFile(memory_state.val["projectInfo"].val["content"])
    /\ memory_state.val["projectInfo"].val["content"] # << >>
    /\ md["progress.md"] = TextFile(<< "# Project Progress", LF, LF >>)

\* the file import_markdown reads for the name `n` and the path `p`: the path
\* when one is given, else the file the name has
FileOfName(n) ==
    CASE n = "projectInfo"    -> "projectbrief.md"
      [] n = "productContext" -> "productContext.md"
      [] n = "systemPatterns" -> "systemPatterns.md"
      [] n = "technologies"   -> "techContext.md"
      [] n = "tasks"          -> "activeContext.md"
      [] OTHER                -> "None"
Resolved(n, p) == IF p # "None" THEN p ELSE FileOfName(n)
\* the files that hold the content of one section
RegularFiles ==
    { "projectbrief.md", "productContext.md", "systemPatterns.md", "techContext.md" }
\* the section a regular file is the file of
SectionOfFile(f) ==
    CASE f = "projectbrief.md"   -> "projectInfo"
      [] f = "productContext.md" -> "productContext"
      [] f = "systemPatterns.md" -> "systemPatterns"
      [] f = "techContext.md"    -> "technologies"
\* the sections with a status that are Complete
Done(ms) == { n \in StatusSections : StatusOf(ms, n) = "Complete" }

\* C31: export_markdown with the name of a section the document has and the
\* mapping has no file for (standards, metadata, changeHistory) returns
\* without raising and writes no file.
C31_ExportUnmappedNoRaise ==
    [][ (IsCall("export") /\ last'.name \in { "standards", "metadata", "changeHistory" })
           => /\ last'.ret # "raised"
              /\ md' = md ]_vars

\* C32: import_markdown returns False, leaves the document in memory as it is
\* and saves nothing when the file it resolves to does not exist or cannot be
\* read, or when the name has no file and no path is given.
C32_ImportFailsCleanly ==
    [][ IsCall("import") =>
          LET path == Resolved(last'.name, last'.path)
          IN  (path = "None" \/ md[path].kind # "text")
                 => /\ last'.ret = "False"
                    /\ UNCHANGED << memory_state, state_file, backup_file, md >> ]_vars

\* productContext.md is a directory: the import by name returned False after
\* an earlier import had put the text of projectbrief.md into the document
C32_Witness ==
    /\ last.op = "import" /\ last.name = "productContext" /\ last.path = "None"
    /\ last.ret = "False"
    /\ md["productContext.md"] = Blocked
    /\ memory_state.val["projectInfo"].val["content"] = << "projectbrief.md", LF, "x" >>
    /\ StatusOf(memory_state, "productContext") # "Complete"
    /\ state_file = JsonFile(memory_state)

\* C33: an import of a regular file (projectbrief.md, productContext.md,
\* systemPatterns.md, techContext.md) that can be read sets the content of
\* the file's section to the text read, sets its status to "Complete"
\* whatever it was, changes no other section, saves the document and returns
\* True.
C33_ImportRegularFile ==
    [][ IsCall("import") =>
          LET path == Resolved(last'.name, last'.path)
          IN  (path \in RegularFiles /\ md[path].kind = "text")
                 => LET n == SectionOfFile(path)
                    IN  /\ last'.ret = "True"
                        /\ memory_state'.val[n]
                             = Put(Put(memory_state.val[n], "content",
                                       ReadText(md[path].val)),
                                   "status", "Complete")
                        /\ \A k \in DOMAIN memory_state.val :
                              k \notin { n, "metadata" }
                                 => memory_state'.val[k] = memory_state.val[k]
                        /\ DOMAIN memory_state'.val = DOMAIN memory_state.val
                        /\ state_file' = JsonFile(memory_state') ]_vars

\* productContext, "In Progress" in the document the backup still holds, is
\* Complete after the import by name and has the text read from its file
C33_Witness ==
    /\ last.op = "import" /\ last.name = "productContext" /\ last.path = "None"
    /\ last.ret = "True"
    /\ backup_file.kind = "json"
    /\ StatusOf(backup_file.val, "productContext") = "In Progress"
    /\ StatusOf(memory_state, "productContext") = "Complete"
    /\ memory_state.val["productContext"].val["content"]
         = << "productContext.md", LF, "x" >>
    /\ StatusOf(memory_state, "projectInfo") = "In Progress"

\* C34: for every text A, update_section of tasks with activeContext A, then
\* export_markdown of tasks, then import_markdown of tasks without a path
\* returns True and leaves tasks.current.activeContext equal to A and
\* tasks.history as the update left it; progress.md is not read.
C34_ActiveContextRoundTrip ==
    phase = "open" =>
        \A A \in Texts(MaxTextLen) :
            LET u == update_section(memory_state, state_file, backup_file, clock,
                                    "tasks", << >>, Dict([ activeContext |-> A ]),
                                    clock + 1, clock + 1)
                e == export_markdown(u.memory_state, md, "tasks", linesep)
                r == import_markdown(u.memory_state, u.state_file, u.backup_file,
                                     e.md, u.clock, "tasks", "None", u.clock + 1)
            IN  /\ r.ret = "True"
                /\ r.memory_state.val["tasks"].val["current"].val["activeContext"] = A
                /\ r.memory_state.val["tasks"].val["history"]
                     = u.memory_state.val["tasks"].val["history"]
                /\ ~In("progress", r.memory_state.val["tasks"].val["current"])
                      \/ In("progress", u.memory_state.val["tasks"].val["current"])

\* C35: in every call of update_section, log_change, export_markdown and
\* import_markdown on the handle, the status of each of the five sections
\* that have one stays as it is or becomes "Complete"; a section that is
\* Complete stays Complete.
C35_StatusMonotone ==
    [][ (phase = "open" /\ phase' = "open") =>
          \A n \in StatusSections :
             \/ StatusOf(memory_state', n) = StatusOf(memory_state, n)
             \/ StatusOf(memory_state', n) = "Complete" ]_vars

\* projectInfo, Complete since an earlier call, was updated with a metadata
\* that carries the status "Archived", and is Complete
C35_Witness ==
    /\ last.op = "update" /\ last.name = "projectInfo" /\ last.ret = "True"
    /\ backup_file.kind = "json"
    /\ StatusOf(backup_file.val, "projectInfo") = "Complete"
    /\ StatusOf(memory_state, "projectInfo") = "Complete"
    /\ memory_state.val["metadata"].val["lastUpdated"] = 2
    /\ state_file = JsonFile(memory_state)

\* C36: after a fresh open, get_ready_sections never returns tasks or
\* changeHistory: tasks has no status of its own and changeHistory is a
\* list, whatever the status of the sections tasks depends on.
C36_TasksNeverReady ==
    phase = "open" =>
        /\ "tasks" \notin Range(get_ready_sections(memory_state))
        /\ "changeHistory" \notin Range(get_ready_sections(memory_state))
        /\ ~In("status", memory_state.val["tasks"])
        /\ IsList(memory_state.val["changeHistory"])

\* the three sections tasks depends on are Complete, and what is ready is
\* projectInfo and standards
C36_Witness ==
    /\ phase = "open"
    /\ \A n \in { "productContext", "systemPatterns", "technologies" } :
          StatusOf(memory_state, n) = "Complete"
    /\ get_ready_sections(memory_state) = << "projectInfo", "standards" >>

\* C37: while one of the five sections with a status is not Complete,
\* get_ready_sections returns a section; once the five are Complete it
\* returns none; and every update of a section it returned makes one more
\* section Complete, so that a caller who updates only sections it returned
\* has the five Complete after at most five updates.
C37_ReadyProgress ==
    [][ /\ phase' = "open"
           => (get_ready_sections(memory_state') # << >>
                 <=> Done(memory_state') # StatusSections)
        /\ IsCall("update")
           => /\ last'.ret = "True"
              /\ last'.name \notin Done(memory_state)
              /\ Done(memory_state') = Done(memory_state) \cup { last'.name }
              /\ ops' <= Cardinality(StatusSections) ]_vars

\* the fifth update after the open of a document with no section Complete:
\* the five are Complete and nothing is ready
C37_Witness ==
    /\ last.op = "update" /\ ops = 5 /\ clock = 5
    /\ Done(memory_state) = StatusSections
    /\ get_ready_sections(memory_state) = << >>

\* C38: with a path whose file is a regular file, import_markdown writes the
\* text and the status "Complete" into the section of that file even when
\* the name is the name of another section, and leaves the section of the
\* name as it is.
C38_ImportSectionFromFileName ==
    [][ (/\ IsCall("import")
         /\ last'.path \in RegularFiles
         /\ md[last'.path].kind = "text"
         /\ SectionOfFile(last'.path) # last'.name
         /\ last'.name # "metadata")
           => LET n == SectionOfFile(last'.path)
              IN  /\ last'.ret = "True"
                  /\ memory_state'.val[n].val["content"] = ReadText(md[last'.path].val)
                  /\ StatusOf(memory_state', n) = "Complete"
                  /\ In(last'.name, memory_state)
                        => /\ In(last'.name, memory_state')
                           /\ memory_state'.val[last'.name]
                                = memory_state.val[last'.name] ]_vars

\* the import of projectbrief.md under the name productContext: projectInfo
\* has the text and is Complete, productContext is as the fresh open made it
C38_Witness ==
    /\ last.op = "import" /\ last.name = "productContext"
    /\ last.path = "projectbrief.md" /\ last.ret = "True"
    /\ memory_state.val["projectInfo"].val["content"] = << "projectbrief.md", LF, "x" >>
    /\ StatusOf(memory_state, "projectInfo") = "Complete"
    /\ memory_state.val["productContext"] = initial_state(0, 0).val["productContext"]

\* C39: enter_plan_mode returns all_complete true exactly when projectInfo,
\* productContext, systemPatterns and technologies are Complete, that is
\* when incomplete_sections is empty; when all_complete is true its
\* ready_sections, which is what get_ready_sections returns, is empty or is
\* standards alone; the call changes neither the document nor a file.
C39_PlanModeConsistent ==
    [][ last'.op = "plan" =>
          LET v == last'.val
          IN  /\ v.all_complete
                 <=> \A n \in { "projectInfo", "productContext", "systemPatterns",
                                "technologies" } :
                        StatusOf(memory_state', n) = "Complete"
              /\ v.all_complete <=> v.incomplete_sections = << >>
              /\ v.ready_sections = get_ready_sections(memory_state')
              /\ v.all_complete => v.ready_sections \in { << >>, << "standards" >> }
              /\ UNCHANGED << memory_state, state_file, backup_file, md >> ]_vars

\* the four required sections are Complete and standards is not: all_complete
\* is true and standards is what is ready
C39_Witness ==
    /\ last.op = "plan"
    /\ last.val.all_complete
    /\ last.val.incomplete_sections = << >>
    /\ last.val.ready_sections = << "standards" >>
    /\ StatusOf(memory_state, "standards") = "Pending"
====
